---- MODULE Spec2Model ----
(***************************************************************************)
(* The accessor compiler of the access step (constructDestructureFunction) *)
(* and its process-wide caches.  Strings are sequences of characters so    *)
(* that path.join("|") and String.prototype.includes are computed, not     *)
(* assumed.  JavaScript values are tagged records; undefined and null are  *)
(* distinct values.                                                        *)
(***************************************************************************)
EXTENDS Integers, Sequences, FiniteSets, TLC

(* ---------------------------------------------------------------------- *)
(* Bounds                                                                  *)
(* ---------------------------------------------------------------------- *)
\* number of constructDestructureFunction calls in a behaviour
MaxRequests == 2
\* length of the long numeric path of the slow-tier scenario
LongLen == 60

(* ---------------------------------------------------------------------- *)
(* JavaScript values                                                       *)
(* ---------------------------------------------------------------------- *)
Undefined == [k |-> "undefined", n |-> 0, props |-> <<>>]
Null == [k |-> "null", n |-> 0, props |-> <<>>]
Num(i) == [k |-> "num", n |-> i, props |-> <<>>]
Obj(f) == [k |-> "obj", n |-> 0, props |-> f]
\* the marker of an uncaught TypeError raised by a call
Thrown == [k |-> "throw", n |-> 0, props |-> <<>>]

\* x == null
Nullish(v) == v.k \in {"undefined", "null"}

\* a ?? b
Coalesce(a, b) == IF Nullish(a) THEN b ELSE a

(* ---------------------------------------------------------------------- *)
(* Path segments: typeof, String(item), Number.isFinite(item), item==null  *)
(* ---------------------------------------------------------------------- *)
StrSeg(chars) == [t |-> "string", s |-> chars, fin |-> FALSE, nul |-> FALSE]
NumSeg(chars) == [t |-> "number", s |-> chars, fin |-> TRUE, nul |-> FALSE]
SymSeg(chars) == [t |-> "symbol", s |-> chars, fin |-> FALSE, nul |-> FALSE]
NaNSeg == [t |-> "number", s |-> <<"N", "a", "N">>, fin |-> FALSE, nul |-> FALSE]
NullSeg == [t |-> "object", s |-> <<"n", "u", "l", "l">>, fin |-> FALSE, nul |-> TRUE]
BoolSeg == [t |-> "boolean", s |-> <<"t", "r", "u", "e">>, fin |-> FALSE, nul |-> FALSE]
ObjSeg == [t |-> "object", s |-> <<"[", "o", "]">>, fin |-> FALSE, nul |-> FALSE]

\* the characters of the string that typeof yields
TypeofChars(item) ==
  CASE item.t = "string" -> <<"s", "t", "r", "i", "n", "g">>
    [] item.t = "number" -> <<"n", "u", "m", "b", "e", "r">>
    [] item.t = "symbol" -> <<"s", "y", "m", "b", "o", "l">>
    [] item.t = "boolean" -> <<"b", "o", "o", "l", "e", "a", "n">>
    [] OTHER -> <<"o", "b", "j", "e", "c", "t">>

\* str.includes(ch) for a one-character needle
Includes(chars, ch) == \E i \in 1..Len(chars) : chars[i] = ch

\* the property key an item denotes in value[item]: a symbol is its own key,
\* every other item is converted to a string
ToPropertyKey(item) == [sym |-> item.t = "symbol", s |-> item.s]

\* value[key] on a value that is neither null nor undefined
GetProp(v, key) ==
  IF v.k = "obj" /\ key \in DOMAIN v.props THEN v.props[key] ELSE Undefined

\* value?.[key]
OptGet(v, key) == IF Nullish(v) THEN Undefined ELSE GetProp(v, key)

\* Array.prototype.join: null and undefined elements become the empty string
RECURSIVE Join(_, _)
Join(path, sep) ==
  IF Len(path) = 0 THEN <<>>
  ELSE LET first == IF path[1].nul THEN <<>> ELSE path[1].s
       IN IF Len(path) = 1 THEN first
          ELSE first \o <<sep>> \o Join(Tail(path), sep)

(* ---------------------------------------------------------------------- *)
(* The functions the compiler delivers, and what a call of each computes   *)
(* ---------------------------------------------------------------------- *)
\* The loops over a path are computed by halving the range of indices: the
\* left half is evaluated first and the right half continues from its
\* result, which is the value of the left-to-right loop.

\* slowlyExtractValueAtPath: one iteration; a null or undefined current value
\* ends the loop
SlowStep(current, item) ==
  IF Nullish(current) THEN current ELSE GetProp(current, ToPropertyKey(item))

\* current after the iterations lo..hi of the loop
RECURSIVE SlowRange(_, _, _, _)
SlowRange(current, path, lo, hi) ==
  IF lo > hi THEN current
  ELSE IF lo = hi THEN SlowStep(current, path[lo])
  ELSE LET left == SlowRange(current, path, lo, (lo + hi) \div 2)
       IN IF Nullish(left) THEN left
          ELSE SlowRange(left, path, (lo + hi) \div 2 + 1, hi)

SlowLoop(current, path, i) == SlowRange(current, path, i, Len(path))

slowlyExtractValueAtPath(path, fallback, value) ==
  Coalesce(SlowLoop(value, path, 1), fallback)

\* access1(key1, fallback)(_extra, value)
quicklyAccessKey1(key1, fallback, value) ==
  IF fallback # Undefined
  THEN Coalesce(OptGet(value, ToPropertyKey(key1)), fallback)
  ELSE OptGet(value, ToPropertyKey(key1))

\* access2(key1, key2, fallback)(_extra, value)
quicklyAccessKey2(key1, key2, fallback, value) ==
  IF fallback # Undefined
  THEN Coalesce(OptGet(OptGet(value, ToPropertyKey(key1)), ToPropertyKey(key2)),
                fallback)
  ELSE OptGet(OptGet(value, ToPropertyKey(key1)), ToPropertyKey(key2))

\* value?.p1?.p2 ... : the expression joined from te.get(pathItem)
RECURSIVE OptRange(_, _, _, _)
OptRange(current, path, lo, hi) ==
  IF lo > hi THEN current
  ELSE IF lo = hi THEN OptGet(current, ToPropertyKey(path[lo]))
  ELSE LET left == OptRange(current, path, lo, (lo + hi) \div 2)
       IN IF Nullish(left) THEN Undefined
          ELSE OptRange(left, path, (lo + hi) \div 2 + 1, hi)

OptChain(current, path, i) == OptRange(current, path, i, Len(path))

\* the generated turbo function: (value<expression>) ?? <fallback literal>
quicklyExtractValueAtPath(path, fallback, value) ==
  IF fallback # Undefined
  THEN Coalesce(OptChain(value, path, 1), fallback)
  ELSE OptChain(value, path, 1)

\* value[p0][p1]... : the body of the function a middle factory returns;
\* indexing null or undefined raises a TypeError
DirectStep(current, item) ==
  IF current = Thrown \/ Nullish(current) THEN Thrown
  ELSE GetProp(current, ToPropertyKey(item))

RECURSIVE DirectRange(_, _, _, _)
DirectRange(current, path, lo, hi) ==
  IF lo > hi THEN current
  ELSE IF lo = hi THEN DirectStep(current, path[lo])
  ELSE LET left == DirectRange(current, path, lo, (lo + hi) \div 2)
       IN IF left = Thrown \/ Nullish(left) THEN Thrown
          ELSE DirectRange(left, path, (lo + hi) \div 2 + 1, hi)

DirectChain(current, path, i) == DirectRange(current, path, i, Len(path))

\* function objects: the kind of closure, the path and the fallback it
\* captured (a middle function captures no fallback)
Fn(kind, path, fallback) == [kind |-> kind, path |-> path, fallback |-> fallback]

\* fn(extra, value)
Call(fn, value) ==
  CASE fn.kind = "slow" -> slowlyExtractValueAtPath(fn.path, fn.fallback, value)
    [] fn.kind = "access1" -> quicklyAccessKey1(fn.path[1], fn.fallback, value)
    [] fn.kind = "access2" ->
         quicklyAccessKey2(fn.path[1], fn.path[2], fn.fallback, value)
    [] fn.kind = "jit" -> quicklyExtractValueAtPath(fn.path, fn.fallback, value)
    [] OTHER -> DirectChain(value, fn.path, 1)

\* factory(...path) for the factory generated for arity n: the returned
\* arrow function indexes by its parameters p0..p(n-1)
ApplyFactory(factory, path) ==
  Fn("middle", SubSeq(path, 1, factory.n), Undefined)

(* ---------------------------------------------------------------------- *)
(* Mode selection: 0 slow, 1 middle, 2 turbo, Invalid when the loop throws *)
(* ---------------------------------------------------------------------- *)
Invalid == -1

\* mutation: the turbo threshold compared with >= instead of >
InitialModeOffByOne(n) == IF n > 50 THEN 0 ELSE IF n >= 5 THEN 1 ELSE 2

InitialMode(n) == IF n > 50 THEN 0 ELSE IF n > 5 THEN 1 ELSE 2

\* mutation: a symbol leaves the mode as it is
ModeOnSymbolKeep(mode) == mode

\* mutation: a symbol sets middle mode without testing for turbo mode
ModeOnSymbolRaise(mode) == 1

ModeOnSymbol(mode) == IF mode = 2 THEN 1 ELSE mode

\* the test is made on t, the result of typeof, not on the item
ModeOnString(item, mode) ==
  IF Includes(TypeofChars(item), "|") /\ mode = 2 THEN 1 ELSE mode

ModeOnNumber(item, mode) == IF ~item.fin THEN 0 ELSE mode

\* mutation: the final else branch selects slow mode instead of throwing
LoopBodyNoThrow(item, mode) ==
  IF mode = Invalid THEN Invalid
  ELSE IF item.t = "symbol" THEN ModeOnSymbol(mode)
  ELSE IF item.t = "string" THEN ModeOnString(item, mode)
  ELSE IF item.t = "number" THEN ModeOnNumber(item, mode)
  ELSE 0

LoopBody(item, mode) ==
  IF mode = Invalid THEN Invalid
  ELSE IF item.t = "symbol" THEN ModeOnSymbol(mode)
  ELSE IF item.t = "string" THEN ModeOnString(item, mode)
  ELSE IF item.t = "number" THEN ModeOnNumber(item, mode)
  ELSE IF item.nul THEN 0
  ELSE Invalid

\* the mode after the iterations lo..hi of the validation loop
RECURSIVE ScanRange(_, _, _, _)
ScanRange(mode, path, lo, hi) ==
  IF lo > hi THEN mode
  ELSE IF lo = hi THEN LoopBody(path[lo], mode)
  ELSE LET left == ScanRange(mode, path, lo, (lo + hi) \div 2)
       IN IF left = Invalid THEN Invalid
          ELSE ScanRange(left, path, (lo + hi) \div 2 + 1, hi)

\* the mode after the first i iterations
ScanMode(path, i) == ScanRange(InitialMode(Len(path)), path, 1, i)

SelectMode(path) == ScanMode(path, Len(path))

\* the turbo and the middle cache keys
TurboSignature(path) == Join(path, "|")

\* mutation: the literal segments are appended to the key
MiddleSignatureLiteral(path, fallback) ==
  <<IF fallback # Undefined THEN "f" ELSE "n", Len(path)>> \o path

MiddleSignature(path, fallback) ==
  <<IF fallback # Undefined THEN "f" ELSE "n", Len(path)>>

(* ---------------------------------------------------------------------- *)
(* The least-recently-used map behind the turbo cache: a sequence of       *)
(* entries, most recently used first                                       *)
(* ---------------------------------------------------------------------- *)
\* mutation: the capacity is one entry larger
maxLengthOffByOne == 1000 + 1

maxLength == 1000

LRUHas(lru, key) == \E i \in 1..Len(lru) : lru[i].key = key

LRUIndex(lru, key) == CHOOSE i \in 1..Len(lru) : lru[i].key = key

LRUValue(lru, key) == lru[LRUIndex(lru, key)].value

LRUWithout(lru, key) == SelectSeq(lru, LAMBDA e : e.key # key)

\* the map after get(key): a hit becomes the most recently used entry
LRUGet(lru, key) ==
  IF LRUHas(lru, key)
  THEN <<lru[LRUIndex(lru, key)]>> \o LRUWithout(lru, key)
  ELSE lru

\* the map after set(key, value): beyond maxLength the least recently used
\* entry is dropped
LRUSet(lru, key, value) ==
  LET added == <<[key |-> key, value |-> value]>> \o LRUWithout(lru, key)
  IN IF Len(added) > maxLength THEN SubSeq(added, 1, maxLength) ELSE added

(* ---------------------------------------------------------------------- *)
(* Inputs                                                                  *)
(* ---------------------------------------------------------------------- *)
A == StrSeg(<<"a">>)
B == StrSeg(<<"b">>)
AB == StrSeg(<<"a", "|", "b">>)
Zero == NumSeg(<<"0">>)
S == SymSeg(<<"S">>)
\* the empty string
E == StrSeg(<<>>)

NumPath(n) == [i \in 1..n |-> Zero]

F1 == Num(1)
F2 == Num(2)

Fallbacks == {Undefined, F1, F2}

\* paths served in turbo mode, requested with every fallback
TurboPaths == { <<>>, <<A>>, <<A, B>>, <<AB>>, <<A, B, A>> }

\* paths whose joined signature is also that of a path in TurboPaths
CollidingPaths == { <<E>>, <<AB, A>> }

\* paths served in middle mode
MiddlePaths == { <<S>>, <<S, A>>, <<A, S>>, <<AB, S>> }

\* paths served in slow mode
SlowPaths == { <<NaNSeg>>, <<NullSeg, S>>, <<S, NaNSeg, A>>, <<AB, NullSeg>> }

\* paths the validation loop rejects
InvalidPaths ==
  { <<BoolSeg>>, <<A, ObjSeg>>, <<NullSeg, BoolSeg>>, NumPath(50) \o <<BoolSeg>> }

\* paths around the length thresholds
LongPaths ==
  { NumPath(5), NumPath(6), NumPath(50), NumPath(51), NumPath(LongLen),
    NumPath(5) \o <<S>>, NumPath(50) \o <<S>> }

Inputs ==
  (TurboPaths \X Fallbacks)
    \cup ((MiddlePaths \cup SlowPaths) \X {Undefined, F1})
    \cup ((InvalidPaths \cup LongPaths \cup CollidingPaths) \X {Undefined})
    \cup {<<(<<S, A>>), F2>>}

\* {"0": {"0": ... 5}} nested n deep
RECURSIVE NestOn(_, _)
NestOn(inner, n) ==
  IF n = 0 THEN inner
  ELSE IF n = 1 THEN Obj(ToPropertyKey(Zero) :> inner)
  ELSE LET half == NestOn(inner, n \div 2)
       IN IF half.k = "obj" THEN NestOn(half, n - n \div 2) ELSE half

Nest(n) == NestOn(Num(5), n)

KA == ToPropertyKey(A)
KB == ToPropertyKey(B)
KAB == ToPropertyKey(AB)
KS == ToPropertyKey(S)

\* the values the delivered functions are applied to
Values ==
  { Undefined, Null, Num(5), Obj(<<>>),
    Obj(KA :> Num(5)), Obj(KA :> Null), Obj(KAB :> Num(7)),
    Obj(KA :> Obj(KB :> Num(5))), Obj(KA :> Obj(KB :> Null)),
    Obj(KA :> Obj(KB :> Num(5)) @@ KAB :> Num(7)),
    Obj(KA :> Obj(KB :> Obj(KA :> Num(5)))),
    Obj(KS :> Num(5)), Obj(KS :> Obj(KA :> Num(5))), Obj(KS :> Null),
    Obj(KA :> Obj(KS :> Num(5))), Obj(KAB :> Obj(KS :> Num(5))),
    Obj(ToPropertyKey(NaNSeg) :> Num(5)),
    Obj(ToPropertyKey(NullSeg) :> Obj(KS :> Num(5))),
    Nest(3), Nest(5), Nest(6), Nest(7), Nest(50), Nest(51), Nest(LongLen) }

(* ---------------------------------------------------------------------- *)
(* State                                                                   *)
(* ---------------------------------------------------------------------- *)
VARIABLES
  makeDestructureHyperCache,   \* LRU: turbo signature -> function
  makingDestructureHyperCache, \* turbo signature -> array of callbacks
  makeDestructureCache,        \* middle signature -> factory
  makingDestructureCache,      \* middle signature -> array of callbacks
  batch,       \* te.runInBatch: compilations started and not yet completed
  requests,    \* the calls of constructDestructureFunction, in order
  delivered,   \* per call, the functions its callback was invoked with
  steps,       \* the steps of the plan, by id
  owner,       \* per call, the step whose optimize made it (0: none)
  calls,       \* the calls of AccessStep.optimize, in order
  returned,    \* the latest call of an operation that hands back a value
  globalBehaviorDefaults,   \* Behavior: the constructor's argument
  behaviorEntities,         \* Behavior: the registered entity types
  frozen,                   \* Behavior: freeze() has run
  atFreeze,                 \* Behavior: behaviorEntities when freeze() ran
  sourceBuilderByPgClassByDatabase, \* pgTables: database -> class -> promise
  sourceBySourceBuilder,    \* pgTables: source builder -> promise of a source
  detailsBySourceBuilder,   \* pgTables: source builder -> database and class
  sourceBuilderPromises,    \* pgTables: the promises made by getSourceBuilder
  sourcePromises,           \* pgTables: the promises made by getSource
  processed,                \* pgTables: the hooks run by info.process, in order
  mainState,                \* pgTables: the position of main
  pgSources,                \* pgTables: output.pgSources
  waitPc,                   \* wait-for-postgres: the promise main is awaiting
  attemptN,                 \* wait-for-postgres: the loop variable n
  pool,                     \* wait-for-postgres: the pg.Pool
  console                   \* wait-for-postgres: what has been logged

vars == <<makeDestructureHyperCache, makingDestructureHyperCache,
          makeDestructureCache, makingDestructureCache, batch, requests,
          delivered, steps, owner, calls, returned, globalBehaviorDefaults,
          behaviorEntities, frozen, atFreeze,
          sourceBuilderByPgClassByDatabase, sourceBySourceBuilder,
          detailsBySourceBuilder, sourceBuilderPromises, sourcePromises,
          processed, mainState, pgSources, waitPc, attemptN, pool, console>>

\* the state of the accessor compiler and of the steps
accessVars == <<makeDestructureHyperCache, makingDestructureHyperCache,
                makeDestructureCache, makingDestructureCache, batch, requests,
                delivered, steps, owner, calls>>

\* the state of the Behavior object
behaviorVars == <<globalBehaviorDefaults, behaviorEntities, frozen, atFreeze>>

\* the state of the pgTables gather helpers
gatherVars == <<sourceBuilderByPgClassByDatabase, sourceBySourceBuilder,
                detailsBySourceBuilder, sourceBuilderPromises, sourcePromises,
                processed, mainState, pgSources>>

\* the state of the wait-for-postgres script
waitVars == <<waitPc, attemptN, pool, console>>

\* no call has handed back a value
NoResult == [call |-> "none"]

\* new Behavior(): no global defaults, no entity type
NewBehavior ==
  /\ globalBehaviorDefaults = <<>>
  /\ behaviorEntities = <<>>
  /\ frozen = FALSE
  /\ atFreeze = <<>>

\* initialState(): three empty maps; main has not run
NewGather ==
  /\ sourceBuilderByPgClassByDatabase = <<>>
  /\ sourceBySourceBuilder = <<>>
  /\ detailsBySourceBuilder = <<>>
  /\ sourceBuilderPromises = <<>>
  /\ sourcePromises = <<>>
  /\ processed = <<>>
  /\ mainState = [pc |-> "idle"]
  /\ pgSources = <<>>

\* the script is loaded: the pool is created, main has not been called
NewWait ==
  /\ waitPc = "start"
  /\ attemptN = 0
  /\ pool = [clients |-> 0, connects |-> 0, ending |-> FALSE]
  /\ console = [failed |-> 0, delay |-> 0, connected |-> FALSE,
                successful |-> FALSE]

\* a step that is not an AccessStep
OtherStep == [access |-> FALSE, dep |-> 0, path |-> <<>>, fallback |-> Undefined]

caches == <<makeDestructureHyperCache, makingDestructureHyperCache,
            makeDestructureCache, makingDestructureCache>>

Init ==
  /\ makeDestructureHyperCache = <<>>
  /\ makingDestructureHyperCache = <<>>
  /\ makeDestructureCache = <<>>
  /\ makingDestructureCache = <<>>
  /\ batch = <<>>
  /\ requests = <<>>
  /\ delivered = <<>>
  /\ steps = <<OtherStep>>
  /\ owner = <<>>
  /\ calls = <<>>
  /\ returned = NoResult
  /\ NewBehavior
  /\ NewGather
  /\ NewWait

\* the map m without the key k, and with k set to v
MapDelete(m, k) == [x \in DOMAIN m \ {k} |-> m[x]]

MapSet(m, k, v) == [x \in DOMAIN m \cup {k} |-> IF x = k THEN v ELSE m[x]]

(* ---------------------------------------------------------------------- *)
(* constructDestructureFunction(path, fallback, callback)                  *)
(* ---------------------------------------------------------------------- *)
\* the record of a call: its arguments, the mode it ran in and the branch it
\* took ("throw", "slow", "hit", "queued", "started" or "sync")
Request(path, fallback, mode, branch) ==
  [path |-> path, fallback |-> fallback, mode |-> mode, branch |-> branch]

\* an element of a callbacks array: the caller's callback itself (turbo) or
\* the closure (fn) => callback(fn(...path)) (middle)
Direct(r) == [cb |-> r, wrap |-> FALSE, path |-> <<>>]

Wrapped(r, path) == [cb |-> r, wrap |-> TRUE, path |-> path]

\* what the caller's callback receives when the array element is called
Received(entry, result) ==
  IF entry.wrap THEN ApplyFactory(result, entry.path) ELSE result

\* mutation: only the callback that started the compilation is called
NotifyFirstOnly(dl, callbacks, i, result) ==
  IF Len(callbacks) = 0 THEN dl
  ELSE [dl EXCEPT ![callbacks[1].cb] = Append(@, Received(callbacks[1], result))]

\* mutation: every waiting caller gets what the first closure produces
NotifyAllSharedPath(dl, callbacks, i, result) ==
  [r \in DOMAIN dl |->
     IF \E k \in 1..Len(callbacks) : callbacks[k].cb = r
     THEN Append(dl[r], Received(callbacks[1], result))
     ELSE dl[r]]

\* for (const callback of callbacks) callback(result)
RECURSIVE NotifyAll(_, _, _, _)
NotifyAll(dl, callbacks, i, result) ==
  IF i > Len(callbacks) THEN dl
  ELSE NotifyAll([dl EXCEPT ![callbacks[i].cb] =
                    Append(@, Received(callbacks[i], result))],
                 callbacks, i + 1, result)

\* the loop throws: nothing after it runs
RequestInvalid(path, fallback) ==
  /\ SelectMode(path) = Invalid
  /\ requests' = Append(requests, Request(path, fallback, Invalid, "throw"))
  /\ delivered' = Append(delivered, <<>>)
  /\ UNCHANGED <<caches, batch>>

\* mutation: the slow function is stored in the turbo cache
RequestSlowCaching(path, fallback) ==
  /\ SelectMode(path) = 0
  /\ requests' = Append(requests, Request(path, fallback, 0, "slow"))
  /\ delivered' = Append(delivered, <<Fn("slow", path, fallback)>>)
  /\ makeDestructureHyperCache' =
       LRUSet(makeDestructureHyperCache, <<>>, Fn("slow", path, fallback))
  /\ UNCHANGED <<makingDestructureHyperCache, makeDestructureCache,
                 makingDestructureCache, batch>>

RequestSlow(path, fallback) ==
  /\ SelectMode(path) = 0
  /\ requests' = Append(requests, Request(path, fallback, 0, "slow"))
  /\ delivered' = Append(delivered, <<Fn("slow", path, fallback)>>)
  /\ UNCHANGED <<caches, batch>>

\* makingDestructureCache[signature] is set
MiddleMaking(signature) == signature \in DOMAIN makingDestructureCache

RequestMiddle(path, fallback) ==
  /\ SelectMode(path) = 1
  /\ LET r == Len(requests) + 1
         signature == MiddleSignature(path, fallback)
     IN IF signature \in DOMAIN makeDestructureCache
           THEN /\ requests' = Append(requests, Request(path, fallback, 1, "hit"))
                /\ delivered' =
                     Append(delivered,
                            <<ApplyFactory(makeDestructureCache[signature], path)>>)
                /\ UNCHANGED <<caches, batch>>
           ELSE IF MiddleMaking(signature)
           THEN /\ batch' = [batch EXCEPT
                               ![makingDestructureCache[signature]].callbacks =
                                 Append(@, Wrapped(r, path))]
                /\ requests' = Append(requests, Request(path, fallback, 1, "queued"))
                /\ delivered' = Append(delivered, <<>>)
                /\ UNCHANGED caches
           ELSE /\ makingDestructureCache' =
                     MapSet(makingDestructureCache, signature, r)
                /\ batch' = MapSet(batch, r,
                                   [mode |-> 1, signature |-> signature,
                                    result |-> [kind |-> "factory", n |-> Len(path)],
                                    callbacks |-> <<Wrapped(r, path)>>])
                /\ requests' = Append(requests, Request(path, fallback, 1, "started"))
                /\ delivered' = Append(delivered, <<>>)
                /\ UNCHANGED <<makeDestructureHyperCache,
                               makingDestructureHyperCache, makeDestructureCache>>

\* mutation: the in-progress map is not consulted
HyperMakingNever(signature) == FALSE

\* makingDestructureHyperCache.get(signature) is set
HyperMaking(signature) == signature \in DOMAIN makingDestructureHyperCache

\* the function a turbo request builds when its signature is not cached
TurboBuild(path, fallback) ==
  IF Len(path) = 1 THEN Fn("access1", path, fallback)
  ELSE IF Len(path) = 2 THEN Fn("access2", path, fallback)
  ELSE Fn("jit", path, fallback)

RequestTurbo(path, fallback) ==
  /\ SelectMode(path) = 2
  /\ LET r == Len(requests) + 1
         signature == TurboSignature(path)
     IN IF LRUHas(makeDestructureHyperCache, signature)
           THEN /\ makeDestructureHyperCache' =
                     LRUGet(makeDestructureHyperCache, signature)
                /\ requests' = Append(requests, Request(path, fallback, 2, "hit"))
                /\ delivered' =
                     Append(delivered,
                            <<LRUValue(makeDestructureHyperCache, signature)>>)
                /\ UNCHANGED <<makingDestructureHyperCache, makeDestructureCache,
                               makingDestructureCache, batch>>
           ELSE IF HyperMaking(signature)
           THEN /\ batch' = [batch EXCEPT
                               ![makingDestructureHyperCache[signature]].callbacks =
                                 Append(@, Direct(r))]
                /\ requests' = Append(requests, Request(path, fallback, 2, "queued"))
                /\ delivered' = Append(delivered, <<>>)
                /\ UNCHANGED caches
           ELSE IF Len(path) \in {1, 2}
           THEN \* done() runs before the call returns
                /\ makeDestructureHyperCache' =
                     LRUSet(makeDestructureHyperCache, signature,
                            TurboBuild(path, fallback))
                /\ requests' = Append(requests, Request(path, fallback, 2, "sync"))
                /\ delivered' = Append(delivered, <<TurboBuild(path, fallback)>>)
                /\ UNCHANGED <<makingDestructureHyperCache, makeDestructureCache,
                               makingDestructureCache, batch>>
           ELSE /\ makingDestructureHyperCache' =
                     MapSet(makingDestructureHyperCache, signature, r)
                /\ batch' = MapSet(batch, r,
                                   [mode |-> 2, signature |-> signature,
                                    result |-> TurboBuild(path, fallback),
                                    callbacks |-> <<Direct(r)>>])
                /\ requests' = Append(requests, Request(path, fallback, 2, "started"))
                /\ delivered' = Append(delivered, <<>>)
                /\ UNCHANGED <<makeDestructureHyperCache, makeDestructureCache,
                               makingDestructureCache>>

\* the body of the function, for any caller
Construct(path, fallback) ==
  \/ RequestInvalid(path, fallback)
  \/ RequestSlow(path, fallback)
  \/ RequestMiddle(path, fallback)
  \/ RequestTurbo(path, fallback)

\* a call with a callback that belongs to no step
constructDestructureFunction(path, fallback) ==
  /\ Len(requests) < MaxRequests
  /\ Construct(path, fallback)
  /\ owner' = Append(owner, 0)
  /\ returned' = NoResult
  /\ UNCHANGED <<steps, calls, behaviorVars,
                 gatherVars, waitVars>>

\* the callback of te.runInBatch for a middle factory
FactoryCompiled(j) ==
  /\ j \in DOMAIN batch
  /\ batch[j].mode = 1
  /\ makeDestructureCache' =
       MapSet(makeDestructureCache, batch[j].signature, batch[j].result)
  /\ makingDestructureCache' =
       MapDelete(makingDestructureCache, batch[j].signature)
  /\ delivered' = NotifyAll(delivered, batch[j].callbacks, 1, batch[j].result)
  /\ batch' = MapDelete(batch, j)
  /\ UNCHANGED <<makeDestructureHyperCache, makingDestructureHyperCache,
                 requests, steps, owner, calls, behaviorVars,
                 gatherVars, waitVars>>
  /\ returned' = NoResult

\* the callback of te.runInBatch for a turbo function: done(fn)
done(j) ==
  /\ j \in DOMAIN batch
  /\ batch[j].mode = 2
  /\ makeDestructureHyperCache' =
       LRUSet(makeDestructureHyperCache, batch[j].signature, batch[j].result)
  /\ makingDestructureHyperCache' =
       MapDelete(makingDestructureHyperCache, batch[j].signature)
  /\ delivered' = NotifyAll(delivered, batch[j].callbacks, 1, batch[j].result)
  /\ batch' = MapDelete(batch, j)
  /\ UNCHANGED <<makeDestructureCache, makingDestructureCache, requests,
                 steps, owner, calls, behaviorVars,
                 gatherVars, waitVars>>
  /\ returned' = NoResult

Next ==
  \/ \E in \in Inputs : constructDestructureFunction(in[1], in[2])
  \/ \E j \in 1..MaxRequests : FactoryCompiled(j)
  \/ \E j \in 1..MaxRequests : done(j)

Spec == Init /\ [][Next]_vars

TypeOK ==
  /\ Len(requests) <= MaxRequests
  /\ Len(delivered) = Len(requests)
  /\ DOMAIN batch \subseteq 1..Len(requests)

(* ---------------------------------------------------------------------- *)
(* Properties                                                              *)
(* ---------------------------------------------------------------------- *)
Served(r) == Len(delivered[r]) > 0

HasSeparator(item) == item.t = "string" /\ Includes(item.s, "|")

HasSymbol(path) == \E i \in 1..Len(path) : path[i].t = "symbol"

\* a non-finite number, null or undefined
ForcesSlow(item) == (item.t = "number" /\ ~item.fin) \/ item.nul

HasForcesSlow(path) == \E i \in 1..Len(path) : ForcesSlow(path[i])

\* neither a string, a number, a symbol, null nor undefined
Rejected(item) == item.t \notin {"string", "number", "symbol"} /\ ~item.nul

HasRejected(path) == \E i \in 1..Len(path) : Rejected(path[i])

\* the value reached after the first i segments of the path
Reached(value, path, i) == SlowLoop(value, SubSeq(path, 1, i), 1)

\* an intermediate key along the path is missing or null in the value
MissingIntermediate(value, path) ==
  \E i \in 1..(Len(path) - 1) : Nullish(Reached(value, path, i))

\* C1: every function delivered to a turbo request returns, for every value,
\* what the slow walk of the request's path and fallback returns
C1_TurboEqualsSlowWalk ==
  \A r \in DOMAIN requests :
    requests[r].mode = 2 =>
      \A i \in 1..Len(delivered[r]) : \A v \in Values :
        Call(delivered[r][i], v) =
          slowlyExtractValueAtPath(requests[r].path, requests[r].fallback, v)

\* C2: in every tier a delivered function never throws, and when an
\* intermediate key of the path is missing or null it returns the fallback
\* of its request (undefined when none was given)
C2_NeverThrowsOnMissingKey ==
  \A r \in DOMAIN requests : \A i \in 1..Len(delivered[r]) : \A v \in Values :
    /\ Call(delivered[r][i], v) # Thrown
    /\ MissingIntermediate(v, requests[r].path) =>
         Call(delivered[r][i], v) = requests[r].fallback

\* C3: two turbo requests for the same path with different fallbacks each
\* receive a function that yields their own fallback where the path is missing
C3_OwnFallback ==
  \A r1, r2 \in DOMAIN requests :
    ( /\ requests[r1].mode = 2 /\ requests[r2].mode = 2
      /\ requests[r1].path = requests[r2].path
      /\ requests[r1].fallback # requests[r2].fallback
      /\ Served(r1) /\ Served(r2) ) =>
      \A v \in Values :
        OptChain(v, requests[r1].path, 1) = Undefined =>
          /\ Call(delivered[r1][1], v) = requests[r1].fallback
          /\ Call(delivered[r2][1], v) = requests[r2].fallback

\* the turbo compilations in progress for a signature
TurboJobs(signature) ==
  {j \in DOMAIN batch : batch[j].mode = 2 /\ batch[j].signature = signature}

\* the places of request r in the callbacks arrays of compilations in progress
Waiting(r) ==
  {ji \in UNION {{j} \X DOMAIN batch[j].callbacks : j \in DOMAIN batch} :
     batch[ji[1]].callbacks[ji[2]].cb = r}

\* C4: at most one turbo compilation is in progress per signature, it exists
\* exactly while the signature is in the in-progress map, and a request that
\* arrived meanwhile waits in the callbacks of that one compilation
C4_OneCompilationPerSignature ==
  /\ \A j \in DOMAIN batch :
       batch[j].mode = 2 =>
         /\ TurboJobs(batch[j].signature) = {j}
         /\ HyperMaking(batch[j].signature)
         /\ makingDestructureHyperCache[batch[j].signature] = j
         /\ ~LRUHas(makeDestructureHyperCache, batch[j].signature)
  /\ \A sig \in DOMAIN makingDestructureHyperCache : TurboJobs(sig) # {}
  /\ \A r \in DOMAIN requests :
       (requests[r].mode = 2 /\ requests[r].branch = "queued" /\ ~Served(r)) =>
         /\ r \notin DOMAIN batch
         /\ \E j \in TurboJobs(TurboSignature(requests[r].path)) :
              Waiting(r) \subseteq {j} \X DOMAIN batch[j].callbacks

C4_Witness ==
  \E r1, r2 \in DOMAIN requests :
    /\ r1 < r2
    /\ requests[r1].branch = "started" /\ requests[r1].mode = 2
    /\ requests[r2].branch = "queued" /\ requests[r2].mode = 2
    /\ DOMAIN batch = {r1}

\* C5: a request with a valid path is notified exactly once: it has either
\* received one function and waits nowhere, or received none and waits at one
\* place of one compilation in progress; the in-progress maps hold exactly
\* the signatures being compiled, so once the compilations have completed
\* every request has been notified once and the maps are empty
C5_NotifiedExactlyOnce ==
  /\ \A r \in DOMAIN requests :
       IF requests[r].mode = Invalid
       THEN delivered[r] = <<>> /\ Waiting(r) = {}
       ELSE \/ Len(delivered[r]) = 1 /\ Waiting(r) = {}
            \/ Len(delivered[r]) = 0 /\ Cardinality(Waiting(r)) = 1
  /\ DOMAIN makingDestructureHyperCache =
       {batch[j].signature : j \in {x \in DOMAIN batch : batch[x].mode = 2}}
  /\ DOMAIN makingDestructureCache =
       {batch[j].signature : j \in {x \in DOMAIN batch : batch[x].mode = 1}}
  /\ \A r \in DOMAIN requests : \A i \in 1..Len(delivered[r]) :
       delivered[r][i].kind \in {"slow", "middle", "access1", "access2", "jit"}

C5_Witness ==
  /\ batch = <<>>
  /\ makingDestructureHyperCache = <<>>
  /\ makingDestructureCache = <<>>
  /\ \E r \in DOMAIN requests :
       requests[r].branch = "queued" /\ Len(delivered[r]) = 1

\* C6: a path with a string segment containing "|" never runs in turbo mode
C6_SeparatorNeverTurbo ==
  \A r \in DOMAIN requests :
    (\E i \in 1..Len(requests[r].path) : HasSeparator(requests[r].path[i])) =>
      requests[r].mode # 2

\* only strings without the separator and finite numbers
PlainPath(path) ==
  \A i \in 1..Len(path) :
    \/ path[i].t = "string" /\ ~HasSeparator(path[i])
    \/ path[i].t = "number" /\ path[i].fin

\* C7: for a path of plain strings and finite numbers the length alone fixes
\* the tier (<= 5 turbo, 6..50 middle, > 50 slow), and the long numeric path
\* gets a slow function that extracts the nested value
C7_TierByLength ==
  \A r \in DOMAIN requests :
    PlainPath(requests[r].path) =>
      /\ Len(requests[r].path) <= 5 => requests[r].mode = 2
      /\ (Len(requests[r].path) > 5 /\ Len(requests[r].path) <= 50) =>
           requests[r].mode = 1
      /\ Len(requests[r].path) > 50 =>
           /\ requests[r].mode = 0
           /\ Len(delivered[r]) = 1
           /\ delivered[r][1].kind = "slow"
           /\ Call(delivered[r][1], Nest(Len(requests[r].path))) = Num(5)
      /\ \A i \in 1..Len(delivered[r]) :
           /\ requests[r].mode = 2 =>
                delivered[r][i].kind \in {"access1", "access2", "jit"}
           /\ requests[r].mode = 1 => delivered[r][i].kind = "middle"

C7_Witness ==
  \E r \in DOMAIN requests :
    /\ requests[r].path = NumPath(LongLen)
    /\ requests[r].mode = 0
    /\ Served(r)

\* C8: a path with a symbol segment is never served in turbo mode: it runs in
\* middle mode unless its length or another segment forces slow mode
C8_SymbolNeverTurbo ==
  \A r \in DOMAIN requests :
    (HasSymbol(requests[r].path) /\ requests[r].mode # Invalid) =>
      /\ requests[r].mode # 2
      /\ requests[r].mode = 0 <=>
           (Len(requests[r].path) > 50 \/ HasForcesSlow(requests[r].path))
      /\ \A i \in 1..Len(delivered[r]) :
           delivered[r][i].kind \in {"slow", "middle"}

C8_Witness ==
  \E r \in DOMAIN requests :
    /\ HasSymbol(requests[r].path)
    /\ Len(requests[r].path) <= 5
    /\ requests[r].mode = 1
    /\ Served(r)

\* C9: a path with a non-finite number or a null segment is served in slow
\* mode wherever that segment stands, and no iteration of the scan raises the
\* mode, whatever the mode before it
C9_ForcedSlowStaysSlow ==
  \A r \in DOMAIN requests :
    /\ (HasForcesSlow(requests[r].path) /\ requests[r].mode # Invalid) =>
         /\ requests[r].mode = 0
         /\ Len(delivered[r]) = 1
         /\ delivered[r][1].kind = "slow"
    /\ \A i \in 1..Len(requests[r].path) : \A mode \in 0..2 :
         LoopBody(requests[r].path[i], mode) \in {Invalid} \cup 0..mode

C9_Witness ==
  \E r \in DOMAIN requests : \E i \in 1..Len(requests[r].path) :
    /\ ForcesSlow(requests[r].path[i])
    /\ \E k \in (i + 1)..Len(requests[r].path) :
         requests[r].path[k].t = "symbol"
    /\ requests[r].mode = 0
    /\ Served(r)

\* neither a string, a finite number nor a symbol
NotStringFiniteNumberSymbol(item) ==
  ~(item.t = "string" \/ (item.t = "number" /\ item.fin) \/ item.t = "symbol")

\* C10 as stated: a request whose path has a segment that is not a string,
\* finite number or symbol fails and its callback is never invoked
C10_Original ==
  \A r \in DOMAIN requests :
    (\E i \in 1..Len(requests[r].path) :
       NotStringFiniteNumberSymbol(requests[r].path[i])) =>
      requests[r].mode = Invalid /\ delivered[r] = <<>>

\* C10 amended: a request whose path has a segment that is not a string,
\* number, symbol, null or undefined fails; the step that makes it leaves
\* the caches, the in-progress maps and the batch unchanged, and its callback
\* is not invoked then or later
C10_InvalidSegmentRejected ==
  [][ /\ (requests' # requests /\ HasRejected(requests'[Len(requests')].path)) =>
           /\ requests'[Len(requests')].mode = Invalid
           /\ delivered' = Append(delivered, <<>>)
           /\ UNCHANGED <<caches, batch>>
      /\ \A r \in DOMAIN requests :
           HasRejected(requests[r].path) =>
             requests[r].mode = Invalid /\ delivered'[r] = <<>> ]_vars

C10_Witness ==
  \E r \in DOMAIN requests :
    /\ HasRejected(requests[r].path)
    /\ requests[r].mode = Invalid
    /\ r > 1
    /\ makeDestructureHyperCache # <<>>

(* ---------------------------------------------------------------------- *)
(* Properties of the caches                                                *)
(* ---------------------------------------------------------------------- *)
MiddleJobs(signature) ==
  {j \in DOMAIN batch : batch[j].mode = 1 /\ batch[j].signature = signature}

\* the request that the step made, when the step made one
NewRequest == requests'[Len(requests')]

\* C12: every key of the middle cache and of its in-progress map is a pair of
\* "f" or "n" and a length in 1..50, the cached factory has that arity, and
\* two middle requests that agree in length and in the presence of a fallback
\* never both start a compilation; hence at most 100 keys
C12_MiddleKeysByLength ==
  /\ \A sig \in DOMAIN makeDestructureCache \cup DOMAIN makingDestructureCache :
       /\ Len(sig) = 2
       /\ sig[1] \in {"f", "n"}
       /\ sig[2] \in 1..50
  /\ \A sig \in DOMAIN makeDestructureCache : makeDestructureCache[sig].n = sig[2]
  /\ Cardinality(DOMAIN makeDestructureCache) <= 100
  /\ \A r1, r2 \in DOMAIN requests :
       ( /\ r1 < r2
         /\ requests[r1].mode = 1 /\ requests[r2].mode = 1
         /\ Len(requests[r1].path) = Len(requests[r2].path)
         /\ (requests[r1].fallback = Undefined) <=>
              (requests[r2].fallback = Undefined)
         /\ requests[r1].branch = "started" ) =>
         requests[r2].branch \in {"hit", "queued"}

C12_Witness ==
  \E r1, r2 \in DOMAIN requests :
    /\ r1 < r2
    /\ requests[r1].mode = 1 /\ requests[r2].mode = 1
    /\ requests[r1].path # requests[r2].path
    /\ requests[r1].fallback # requests[r2].fallback
    /\ requests[r2].branch = "hit"
    /\ Cardinality(DOMAIN makeDestructureCache) = 1

\* C13: at most one factory compilation is in progress per middle signature,
\* a request arriving meanwhile waits in it, and every function delivered to
\* a middle request is bound to the segments of that request's own path
C13_MiddleCoalescedOwnPath ==
  /\ \A j \in DOMAIN batch :
       batch[j].mode = 1 =>
         /\ MiddleJobs(batch[j].signature) = {j}
         /\ MiddleMaking(batch[j].signature)
         /\ makingDestructureCache[batch[j].signature] = j
         /\ batch[j].signature \notin DOMAIN makeDestructureCache
  /\ \A r \in DOMAIN requests :
       requests[r].mode = 1 =>
         /\ \A i \in 1..Len(delivered[r]) :
              /\ delivered[r][i].kind = "middle"
              /\ delivered[r][i].path = requests[r].path
         /\ (requests[r].branch = "queued" /\ ~Served(r)) =>
              \E j \in MiddleJobs(MiddleSignature(requests[r].path,
                                                  requests[r].fallback)) :
                /\ j # r
                /\ Waiting(r) \subseteq {j} \X DOMAIN batch[j].callbacks

C13_Witness ==
  \E r1, r2 \in DOMAIN requests :
    /\ requests[r1].mode = 1 /\ requests[r1].branch = "started"
    /\ requests[r2].mode = 1 /\ requests[r2].branch = "queued"
    /\ requests[r1].path # requests[r2].path
    /\ Served(r1) /\ Served(r2)

\* C14: a call that runs in slow mode invokes its callback with the slow
\* function during the call and leaves both caches, both in-progress maps
\* and the batch of compilations unchanged
C14_SlowTouchesNothing ==
  [][ (requests' # requests /\ NewRequest.mode = 0) =>
        /\ delivered' =
             Append(delivered,
                    <<Fn("slow", NewRequest.path, NewRequest.fallback)>>)
        /\ UNCHANGED <<caches, batch>> ]_vars

C14_Witness ==
  \E r \in DOMAIN requests :
    /\ r > 1
    /\ requests[r].mode = 0
    /\ Served(r)
    /\ makeDestructureHyperCache # <<>>

\* C17: a turbo request of length 1 or 2 that finds no cached function is
\* built by access1 or access2 and has its callback invoked during the call;
\* turbo requests of other lengths are the only ones that are compiled in
\* the batch
C17_ShortPathsBuiltInCall ==
  /\ \A r \in DOMAIN requests :
       (requests[r].mode = 2 /\ requests[r].branch # "hit") =>
         IF Len(requests[r].path) \in {1, 2}
         THEN /\ requests[r].branch = "sync"
              /\ Len(delivered[r]) = 1
              /\ delivered[r][1].kind \in {"access1", "access2"}
         ELSE requests[r].branch \in {"started", "queued"}
  /\ \A j \in DOMAIN batch :
       batch[j].mode = 2 =>
         \A i \in 1..Len(batch[j].callbacks) :
           Len(requests[batch[j].callbacks[i].cb].path) \notin {1, 2}

(* ---------------------------------------------------------------------- *)
(* The turbo cache at its capacity                                         *)
(* ---------------------------------------------------------------------- *)
\* String(n) for a non-negative integer
RECURSIVE Digits(_)
Digits(n) ==
  LET digit == <<"0", "1", "2", "3", "4", "5", "6", "7", "8", "9">>[(n % 10) + 1]
  IN IF n < 10 THEN <<digit>> ELSE Digits(n \div 10) \o <<digit>>

\* the turbo cache after the calls for the paths [0], [1], ... [maxLength - 1]
\* without fallback, in this order: the entry of [0] is the least recently used
FullCache ==
  [i \in 1..maxLength |->
     [key |-> Digits(maxLength - i),
      value |-> Fn("access1", <<NumSeg(Digits(maxLength - i))>>, Undefined)]]

\* the state after those calls, from which the log of calls starts anew
FullInit ==
  /\ makeDestructureHyperCache = FullCache
  /\ makingDestructureHyperCache = <<>>
  /\ makeDestructureCache = <<>>
  /\ makingDestructureCache = <<>>
  /\ batch = <<>>
  /\ requests = <<>>
  /\ delivered = <<>>
  /\ steps = <<OtherStep>>
  /\ owner = <<>>
  /\ calls = <<>>
  /\ returned = NoResult
  /\ NewBehavior
  /\ NewGather
  /\ NewWait

FullInputs ==
  { <<Zero>>, <<NumSeg(<<"1">>)>>, <<A>>, <<A, B, A>>, <<S, A>>, <<NaNSeg>> }
    \X {Undefined, F1}

FullNext ==
  \/ \E in \in FullInputs : constructDestructureFunction(in[1], in[2])
  \/ \E j \in 1..MaxRequests : FactoryCompiled(j)
  \/ \E j \in 1..MaxRequests : done(j)

FullCacheSpec == FullInit /\ [][FullNext]_vars

\* the entries and the keys of the turbo cache
Entries(lru) == {lru[i] : i \in 1..Len(lru)}

Keys(lru) == {lru[i].key : i \in 1..Len(lru)}

\* C15: the turbo cache never holds more than 1000 signatures, and a step
\* that inserts a new signature into the full cache drops exactly the least
\* recently used entry and keeps all others
C15_CapacityAndEviction ==
  [][ /\ Len(makeDestructureHyperCache) <= 1000
      /\ Len(makeDestructureHyperCache') <= 1000
      /\ Cardinality(Keys(makeDestructureHyperCache')) =
           Len(makeDestructureHyperCache')
      /\ ( /\ Len(makeDestructureHyperCache) = 1000
           /\ Keys(makeDestructureHyperCache') # Keys(makeDestructureHyperCache) ) =>
           /\ Entries(makeDestructureHyperCache) \ Entries(makeDestructureHyperCache') =
                {makeDestructureHyperCache[1000]}
           /\ Tail(makeDestructureHyperCache') =
                SubSeq(makeDestructureHyperCache, 1, 999)
           /\ makeDestructureHyperCache'[1].key \notin
                Keys(makeDestructureHyperCache) ]_vars

\* the entry of [0] was used again, a new signature was inserted and the
\* entry of [1] was evicted in its place
C15_Witness ==
  /\ Len(makeDestructureHyperCache) = 1000
  /\ LRUHas(makeDestructureHyperCache, Digits(0))
  /\ ~LRUHas(makeDestructureHyperCache, Digits(1))
  /\ LRUHas(makeDestructureHyperCache, TurboSignature(<<A>>))

\* C16 as stated: no step removes or replaces an entry of the turbo cache or
\* of the middle cache
C16_Original ==
  [][ /\ Entries(makeDestructureHyperCache) \subseteq
           Entries(makeDestructureHyperCache')
      /\ \A sig \in DOMAIN makeDestructureCache :
           /\ sig \in DOMAIN makeDestructureCache'
           /\ makeDestructureCache'[sig] = makeDestructureCache[sig] ]_vars

\* C16 amended: the middle cache is append-only; an entry of the turbo cache
\* is never replaced, and it is removed only as the least recently used entry
\* when a new signature is inserted into the full cache
C16_AppendOnlyUntilEvicted ==
  [][ /\ \A sig \in DOMAIN makeDestructureCache :
           /\ sig \in DOMAIN makeDestructureCache'
           /\ makeDestructureCache'[sig] = makeDestructureCache[sig]
      /\ \/ Entries(makeDestructureHyperCache) \subseteq
              Entries(makeDestructureHyperCache')
         \/ /\ Len(makeDestructureHyperCache) = 1000
            /\ Entries(makeDestructureHyperCache) \ Entries(makeDestructureHyperCache') =
                 {makeDestructureHyperCache[1000]}
            /\ makeDestructureHyperCache[1000].key \notin
                 Keys(makeDestructureHyperCache')
            /\ makeDestructureHyperCache'[1].key \notin
                 Keys(makeDestructureHyperCache) ]_vars

\* a signature was evicted while the middle cache holds a factory
C16_Witness ==
  /\ ~LRUHas(makeDestructureHyperCache, Digits(0))
  /\ Len(makeDestructureHyperCache) = 1000
  /\ makeDestructureCache # <<>>

(* ---------------------------------------------------------------------- *)
(* AccessStep                                                              *)
(* ---------------------------------------------------------------------- *)
\* steps built by the caller, the first included; steps built by optimize
MaxSteps == 3
MaxFused == 2
MaxOptimize == 3

\* the path argument of access(): an array, or a single segment
ArrayArg(path) == [isArray |-> TRUE, items |-> path]

ItemArg(item) == [isArray |-> FALSE, items |-> <<item>>]

\* Array.isArray(path) ? path : [path]
ToArray(arg) == IF arg.isArray THEN arg.items ELSE <<arg.items[1]>>

StepArgs ==
  { <<ArrayArg(<<A>>), Undefined>>, <<ArrayArg(<<A>>), F1>>,
    <<ItemArg(B), Undefined>>, <<ArrayArg(<<A, B>>), Undefined>>,
    <<ArrayArg(<<S>>), Undefined>>, <<ArrayArg(<<BoolSeg>>), Undefined>>,
    <<ArrayArg(<<NaNSeg>>), Undefined>> }

\* new AccessStep(parentPlan, path, fallback): the fields are stored as given
AccessStep(parentPlan, path, fallback) ==
  [access |-> TRUE, dep |-> parentPlan, path |-> path, fallback |-> fallback]

\* the step the plan put in the place of step s: the one its optimize returned
Replacement(s) ==
  IF \E i \in 1..Len(calls) : calls[i].this = s /\ calls[i].result \notin {0, s}
  THEN calls[CHOOSE i \in 1..Len(calls) :
               calls[i].this = s /\ calls[i].result \notin {0, s}].result
  ELSE s

\* a step still in the plan
Live(s) == Replacement(s) = s

RECURSIVE Resolve(_)
Resolve(s) == IF Live(s) THEN s ELSE Resolve(Replacement(s))

\* this.getDep(0): the step now standing for the dependency
GetDep(s) == Resolve(steps[s].dep)

\* optimize has returned the step itself
Optimized(s) ==
  \E i \in 1..Len(calls) : calls[i].this = s /\ calls[i].result = s

\* the plan optimizes a step after its dependencies
MayOptimize(s) ==
  /\ Live(s)
  /\ steps[GetDep(s)].access => Optimized(GetDep(s))

\* mutation: the paths are concatenated child first
FusedChildFirst(this, dep) ==
  AccessStep(GetDep(dep), steps[this].path \o steps[dep].path,
             steps[this].fallback)

\* mutation: the fused step depends on the parent
FusedOnParent(this, dep) ==
  AccessStep(dep, steps[dep].path \o steps[this].path, steps[this].fallback)

\* access($dep.getDep(0), [...$dep.path, ...this.path], this.fallback)
Fused(this, dep) ==
  AccessStep(GetDep(dep), steps[dep].path \o steps[this].path,
             steps[this].fallback)

\* $dep instanceof AccessStep && $dep.fallback === undefined
Fuses(dep) == steps[dep].access /\ steps[dep].fallback = Undefined

\* mutation: the receiver is rebound to the fused dependency and path
StepsFusedInPlace(this, dep) == [steps EXCEPT ![this] = Fused(this, dep)]

\* the plan after access(...) in optimize has built the fused step
StepsAfterFusion(this, dep) == Append(steps, Fused(this, dep))

\* the record of a call of optimize: its receiver, the dependency it read and
\* the step it returned (0 when it threw)
OptimizeCall(this, dep, result) ==
  [this |-> this, dep |-> dep, result |-> result]

\* the calls of optimize that returned a new step
FuseCalls ==
  {i \in 1..Len(calls) : calls[i].result \notin {0, calls[i].this}}

access(parentPlan, path, fallback) ==
  /\ Len(steps) - Cardinality(FuseCalls) < MaxSteps
  /\ Live(parentPlan)
  /\ steps' = Append(steps, AccessStep(parentPlan, ToArray(path), fallback))
  /\ returned' = NoResult
  /\ UNCHANGED <<caches, batch, requests, delivered, owner, calls,
                 behaviorVars,
                 gatherVars, waitVars>>

\* mutation: the function is requested for the dependency's path
CompileDepPath(this) ==
  Construct(steps[GetDep(this)].path, steps[this].fallback)

\* constructDestructureFunction(this.path, this.fallback, (fn) => ...)
Compile(this) == Construct(steps[this].path, steps[this].fallback)

optimize(this) ==
  LET dep == GetDep(this)
  IN /\ steps[this].access
     /\ Len(calls) < MaxOptimize
     /\ MayOptimize(this)
     /\ returned' = NoResult
     /\ UNCHANGED <<behaviorVars, gatherVars, waitVars>>
     /\ IF Fuses(dep)
        THEN /\ Cardinality(FuseCalls) < MaxFused
             /\ steps' = StepsAfterFusion(this, dep)
             /\ calls' = Append(calls, OptimizeCall(this, dep, Len(steps) + 1))
             /\ UNCHANGED <<caches, batch, requests, delivered, owner>>
        ELSE /\ Compile(this)
             /\ owner' = Append(owner, this)
             /\ calls' =
                  Append(calls,
                         OptimizeCall(this, dep,
                                      IF SelectMode(steps[this].path) = Invalid
                                      THEN 0 ELSE this))
             /\ UNCHANGED steps

(* AccessStep.deduplicate *)
\* the characters of a string between quotes, quotes and backslashes escaped
RECURSIVE Quote(_)
Quote(chars) ==
  IF chars = <<>> THEN <<>>
  ELSE (IF Head(chars) \in {"\"", "\\"} THEN <<"\\", Head(chars)>>
        ELSE <<Head(chars)>>) \o Quote(Tail(chars))

\* JSON.stringify of an array element: a string is quoted, a finite number is
\* written out, a boolean is true or false, an object is written as an
\* object, and null, a symbol, NaN and the infinities are written as null
StringifyItem(item) ==
  CASE item.t = "string" -> <<"\"">> \o Quote(item.s) \o <<"\"">>
    [] item.t = "number" /\ item.fin -> item.s
    [] item.t = "boolean" -> item.s
    [] item.t = "object" /\ ~item.nul -> <<"{", "}">>
    [] OTHER -> <<"n", "u", "l", "l">>

RECURSIVE StringifyItems(_)
StringifyItems(path) ==
  IF path = <<>> THEN <<>>
  ELSE IF Len(path) = 1 THEN StringifyItem(path[1])
  ELSE StringifyItem(path[1]) \o <<",">> \o StringifyItems(Tail(path))

\* JSON.stringify(path)
JSONStringify(path) == <<"[">> \o StringifyItems(path) \o <<"]">>

\* mutation: the first peer that matches is left out
DeduplicateDropFirst(this, peers) ==
  LET same ==
        SelectSeq(peers,
                  LAMBDA p : /\ steps[p].fallback = steps[this].fallback
                             /\ JSONStringify(steps[p].path)
                                  = JSONStringify(steps[this].path))
  IN IF same = <<>> THEN same ELSE Tail(same)

\* peers.filter((p) => p.fallback === this.fallback &&
\*                     JSON.stringify(p.path) === myPath)
Deduplicate(this, peers) ==
  SelectSeq(peers,
            LAMBDA p : /\ steps[p].fallback = steps[this].fallback
                       /\ JSONStringify(steps[p].path)
                            = JSONStringify(steps[this].path))

deduplicate(this, peers) ==
  /\ steps[this].access
  /\ returned' = [call |-> "deduplicate", this |-> this, peers |-> peers,
                  result |-> Deduplicate(this, peers)]
  /\ UNCHANGED <<accessVars, gatherVars, waitVars, behaviorVars>>

\* the AccessSteps of the plan, in the order of their creation
AllPeers ==
  SelectSeq([i \in 1..Len(steps) |-> i], LAMBDA i : steps[i].access)

StepNext ==
  \/ \E parentPlan \in 1..(MaxSteps + MaxFused), arg \in StepArgs :
       parentPlan \in DOMAIN steps /\ access(parentPlan, arg[1], arg[2])
  \/ \E this \in 1..(MaxSteps + MaxFused) : this \in DOMAIN steps /\ optimize(this)
  \/ \E this \in 1..(MaxSteps + MaxFused) :
       this \in DOMAIN steps /\ deduplicate(this, AllPeers)
  \/ \E j \in 1..MaxOptimize : FactoryCompiled(j)
  \/ \E j \in 1..MaxOptimize : done(j)

StepSpec == Init /\ [][StepNext]_vars

\* the calls of constructDestructureFunction made by optimize of step s whose
\* callback has run
Assigned(s) == {r \in 1..Len(requests) : owner[r] = s /\ Served(r)}

\* this.unbatchedExecute after the callbacks that have run
unbatchedExecute(s) ==
  LET r == CHOOSE r \in Assigned(s) : \A q \in Assigned(s) : q <= r
  IN delivered[r][Len(delivered[r])]

C18_FusionShape ==
  \A i \in 1..Len(calls) :
    LET this == calls[i].this
        dep == calls[i].dep
        result == calls[i].result
    IN IF Fuses(dep)
       THEN /\ result \in (1..Len(steps)) \ {this}
            /\ steps[result].access
            /\ steps[result].dep = GetDep(dep)
            /\ steps[result].path = steps[dep].path \o steps[this].path
            /\ steps[result].fallback = steps[this].fallback
       ELSE IF HasRejected(steps[this].path) THEN result = 0 ELSE result = this

C18_Witness ==
  /\ \E i \in FuseCalls :
       /\ steps[calls[i].this].fallback # Undefined
       /\ steps[calls[i].dep].path # steps[calls[i].this].path
  /\ \E i \in 1..Len(calls) : calls[i].result = calls[i].this

\* the function constructDestructureFunction hands to the callback for a
\* path when nothing is cached
Compiled(path, fallback) ==
  IF SelectMode(path) = 0 THEN Fn("slow", path, fallback)
  ELSE IF SelectMode(path) = 1
  THEN ApplyFactory([kind |-> "factory", n |-> Len(path)], path)
  ELSE TurboBuild(path, fallback)

\* fn applied to the result of the step before it
Then(fn, inner) == IF inner = Thrown THEN Thrown ELSE Call(fn, inner)

\* access(access(X, P1), P2, fallback) executed on the value of X
Nested(P1, P2, fallback, value) ==
  Then(Compiled(P2, fallback), Call(Compiled(P1, Undefined), value))

\* C19: once the fused step has its function, it gives for every value of the
\* grandparent what the two unfused steps give one after the other.
C19_FusedEqualsNested ==
  \A i \in FuseCalls :
    LET this == calls[i].this
        dep == calls[i].dep
        fused == calls[i].result
    IN (Assigned(fused) # {}
        /\ SelectMode(steps[dep].path) # Invalid
        /\ SelectMode(steps[this].path) # Invalid)
         => \A value \in Values :
              Call(unbatchedExecute(fused), value)
                = Nested(steps[dep].path, steps[this].path,
                         steps[this].fallback, value)

\* C20: a call of optimize on a step that a fusion returned creates no step
\* and returns that step (or throws, when its path holds a rejected segment):
\* the plan optimizes a step after its dependencies.
C20_FusionIdempotent ==
  [][\A s \in {calls[i].result : i \in FuseCalls} :
       (Len(calls') > Len(calls) /\ calls'[Len(calls')].this = s)
         => /\ steps' = steps
            /\ calls'[Len(calls')].result =
                 IF HasRejected(steps[s].path) THEN 0 ELSE s]_vars

C20_Witness ==
  \E i \in FuseCalls : \E j \in 1..Len(calls) :
    /\ i < j
    /\ calls[j].this = calls[i].result
    /\ calls[j].result = calls[j].this
    /\ Len(steps[calls[j].this].path) > 1

\* the calls of constructDestructureFunction made by optimize of step s
Requested(s) == {r \in 1..Len(requests) : owner[r] = s}

\* C21 as stated: a step that optimize returned has had its function requested
\* exactly once.
C21_Original ==
  \A i \in 1..Len(calls) :
    calls[i].result # 0 => Cardinality(Requested(calls[i].result)) = 1

\* C21: every call of optimize that does not fuse requests the function for
\* the receiver's path and fallback once more, a call that fuses requests none,
\* neither for the receiver nor for the step it returns: the requests made for
\* a step are as many as the non-fusing calls of optimize on it.
C21_RequestedPerOptimizeCall ==
  \A s \in 1..Len(steps) :
    /\ Cardinality(Requested(s)) =
         Cardinality({i \in 1..Len(calls) :
                        calls[i].this = s /\ ~Fuses(calls[i].dep)})
    /\ \A r \in Requested(s) :
         /\ requests[r].path = steps[s].path
         /\ requests[r].fallback = steps[s].fallback

\* a step optimized twice and requested twice, and a fused step just returned
C21_Witness ==
  /\ \E s \in 1..Len(steps) :
       Cardinality(Requested(s)) = 2 /\ Len(steps[s].path) > 0
  /\ \E i \in FuseCalls : Requested(calls[i].result) = {}

(* ---------------------------------------------------------------------- *)
(* The metadata attached to turbo functions                                *)
(* ---------------------------------------------------------------------- *)
\* te.join(path.map(te.get), ""): one access per segment, by its literal
Expression(path) == [i \in 1..Len(path) |-> path[i]]

\* fn[expressionSymbol]: the detail attached where the function was built
expressionSymbol(fn) == <<Expression(fn.path), fn.fallback>>

\* C24: every function delivered to a turbo request carries the expression of
\* that request's path and that request's fallback as its metadata.
C24_MetadataOfOwnRequest ==
  \A r \in DOMAIN requests :
    requests[r].mode = 2 =>
      \A i \in 1..Len(delivered[r]) :
        expressionSymbol(delivered[r][i])
          = <<Expression(requests[r].path), requests[r].fallback>>

(* ---------------------------------------------------------------------- *)
(* AccessStep.deduplicate, get and at                                      *)
(* ---------------------------------------------------------------------- *)
MaxPeers == 2
MaxBuilt == 1

\* a second symbol, the string "0" and a fallback that is an object
S2 == SymSeg(<<"T">>)
Zero0 == StrSeg(<<"0">>)
FO == Obj(KB :> Num(5))

\* the plan after some calls of access() on the first step
Catalogue ==
  << OtherStep,
     AccessStep(1, <<A>>, Undefined), AccessStep(1, <<A>>, FO),
     AccessStep(1, <<A>>, F1), AccessStep(1, <<S>>, Undefined),
     AccessStep(1, <<S2>>, Undefined), AccessStep(1, <<Zero>>, Undefined),
     AccessStep(1, <<Zero0>>, Undefined) >>

PeerInit ==
  /\ makeDestructureHyperCache = <<>>
  /\ makingDestructureHyperCache = <<>>
  /\ makeDestructureCache = <<>>
  /\ makingDestructureCache = <<>>
  /\ batch = <<>>
  /\ requests = <<>>
  /\ delivered = <<>>
  /\ steps = Catalogue
  /\ owner = <<>>
  /\ calls = <<>>
  /\ returned = NoResult
  /\ NewBehavior
  /\ NewGather
  /\ NewWait

\* the sequences of at most n AccessSteps of the plan
RECURSIVE PeerLists(_)
PeerLists(n) ==
  IF n = 0 THEN {<<>>}
  ELSE PeerLists(n - 1)
         \cup {Append(l, p) : l \in {q \in PeerLists(n - 1) : Len(q) = n - 1},
                              p \in {i \in 1..Len(steps) : steps[i].access}}

\* the steps built by get and at so far
Built == Len(steps) - Len(Catalogue)

\* new AccessStep(this.getDep(0), [...this.path, attrName]), or 0 for a throw
get(this, attrName) ==
  /\ steps[this].access
  /\ Built < MaxBuilt
  /\ IF attrName.t # "string"
     THEN /\ returned' = [call |-> "get", this |-> this, key |-> attrName,
                          result |-> 0]
          /\ UNCHANGED steps
     ELSE /\ steps' = Append(steps,
                             AccessStep(GetDep(this),
                                        steps[this].path \o <<attrName>>,
                                        Undefined))
          /\ returned' = [call |-> "get", this |-> this, key |-> attrName,
                          result |-> Len(steps) + 1]
  /\ UNCHANGED <<caches, batch, requests, delivered, owner, calls,
                 behaviorVars,
                 gatherVars, waitVars>>

\* new AccessStep(this.getDep(0), [...this.path, index]), or 0 for a throw
at(this, index) ==
  /\ steps[this].access
  /\ Built < MaxBuilt
  /\ IF index.t # "number"
     THEN /\ returned' = [call |-> "at", this |-> this, key |-> index,
                          result |-> 0]
          /\ UNCHANGED steps
     ELSE /\ steps' = Append(steps,
                             AccessStep(GetDep(this),
                                        steps[this].path \o <<index>>,
                                        Undefined))
          /\ returned' = [call |-> "at", this |-> this, key |-> index,
                          result |-> Len(steps) + 1]
  /\ UNCHANGED <<caches, batch, requests, delivered, owner, calls,
                 behaviorVars,
                 gatherVars, waitVars>>

\* the arguments of get and at
Keys0 == {B, Zero, S}

\* a behaviour examines one peer list: deduplicate is called on it, and then
\* on what it returned
PeerNext ==
  \/ /\ returned.call # "deduplicate"
     /\ \E this \in DOMAIN steps, peers \in PeerLists(MaxPeers) :
          deduplicate(this, peers)
  \/ /\ returned.call = "deduplicate"
     /\ returned.peers # returned.result
     /\ deduplicate(returned.this, returned.result)
  \/ \E this \in DOMAIN steps, attrName \in Keys0 : get(this, attrName)
  \/ \E this \in DOMAIN steps, index \in Keys0 : at(this, index)

PeerSpec == PeerInit /\ [][PeerNext]_vars

\* C22: deduplicate returns the peers, in their order, whose path has the same
\* segments in the same order and whose fallback is the same as the step's.
C22_SamePathSameFallback ==
  returned.call = "deduplicate" =>
    returned.result =
      SelectSeq(returned.peers,
                LAMBDA p : /\ steps[p].path = steps[returned.this].path
                           /\ steps[p].fallback = steps[returned.this].fallback)

\* C23: deduplicate applied to its own result returns that result, and a call
\* of deduplicate leaves every step as it was.
C23_DeduplicateIdempotent ==
  [][returned'.call = "deduplicate"
       => /\ steps' = steps
          /\ Deduplicate(returned'.this, returned'.result) = returned'.result]_vars

C23_Witness ==
  /\ returned.call = "deduplicate"
  /\ Len(returned.result) = 1
  /\ Len(returned.peers) = 2
  /\ returned.this \notin {returned.peers[1], returned.peers[2]}

\* C26: the step that get or at returns has the receiver's dependency as its
\* one dependency and yields, for every value of that dependency, the property
\* of what the receiver yields.
C26_GetAtYieldProperty ==
  (returned.call \in {"get", "at"} /\ returned.result # 0) =>
    LET this == steps[returned.this]
        built == steps[returned.result]
    IN /\ built.access
       /\ built.dep = GetDep(returned.this)
       /\ (SelectMode(this.path) # Invalid /\ SelectMode(built.path) # Invalid)
            => \A value \in Values :
                 Call(Compiled(built.path, built.fallback), value)
                   = Then(Compiled(<<returned.key>>, Undefined),
                          Call(Compiled(this.path, this.fallback), value))

\* C25: no call of optimize, deduplicate or access changes the dependency,
\* the path or the fallback of a step that exists, and a fusing call of
\* optimize adds exactly one step.
C25_StepsNeverRebound ==
  [][/\ \A s \in 1..Len(steps) : s \in DOMAIN steps' /\ steps'[s] = steps[s]
     /\ (Len(calls') > Len(calls) /\ Fuses(calls'[Len(calls')].dep))
          => Len(steps') = Len(steps) + 1]_vars

C25_Witness ==
  /\ FuseCalls # {}
  /\ returned.call = "deduplicate"
  /\ Len(returned.result) > 1

(* ---------------------------------------------------------------------- *)
(* Behavior: strings are sequences of characters, a name being one         *)
(* ---------------------------------------------------------------------- *)
MaxCallbacks == 2
MaxDefaultLen == 7

\* the index of the first element of str that is sep, Len(str) + 1 if none
RECURSIVE IndexOf(_, _, _)
IndexOf(str, sep, i) ==
  IF i > Len(str) \/ str[i] = sep THEN i ELSE IndexOf(str, sep, i + 1)

\* the index of the first element of str from i on that is not sep
RECURSIVE IndexOfNot(_, _, _)
IndexOfNot(str, sep, i) ==
  IF i > Len(str) \/ str[i] # sep THEN i ELSE IndexOfNot(str, sep, i + 1)

\* scopeString.split(":")
RECURSIVE parseScope(_)
parseScope(scopeString) ==
  LET i == IndexOf(scopeString, ":", 1)
  IN IF i > Len(scopeString) THEN <<scopeString>>
     ELSE <<SubSeq(scopeString, 1, i - 1)>>
            \o parseScope(SubSeq(scopeString, i + 1, Len(scopeString)))

\* behaviorSpecsString.split(/\s+/)
RECURSIVE SplitSpaces(_)
SplitSpaces(str) ==
  LET i == IndexOf(str, " ", 1)
  IN IF i > Len(str) THEN <<str>>
     ELSE <<SubSeq(str, 1, i - 1)>>
            \o SplitSpaces(SubSeq(str, IndexOfNot(str, " ", i), Len(str)))

\* the spec of a fragment: `+` is implicit
ParseFragment(fragment) ==
  IF fragment # <<>> /\ fragment[1] \in {"+", "-"}
  THEN [positive |-> fragment[1] = "+", scope |-> parseScope(Tail(fragment))]
  ELSE [positive |-> TRUE, scope |-> parseScope(fragment)]

\* the last entry of a scope is "create"
Forbidden(scope) == scope[Len(scope)] = <<"create">>

\* for (const fragment of fragments) specs.push(...)
RECURSIVE ParseFragments(_)
ParseFragments(fragments) ==
  IF fragments = <<>> THEN <<>>
  ELSE <<ParseFragment(Head(fragments))>> \o ParseFragments(Tail(fragments))

\* the list of specs of a behavior string; threw when a scope is forbidden
parseSpecs(behaviorSpecsString) ==
  LET specs == ParseFragments(SplitSpaces(behaviorSpecsString))
  IN [threw |-> \E i \in 1..Len(specs) : Forbidden(specs[i].scope),
      specs |-> specs]

\* mutation: the filter scope is cut to its first entries
scopeMatchesTrimFront(specifiedScope, filterScope, positive) ==
  IF Len(specifiedScope) > Len(filterScope) THEN FALSE
  ELSE LET filterScopeTrimmed == SubSeq(filterScope, 1, Len(specifiedScope))
       IN \A i \in 1..Len(filterScopeTrimmed) :
            LET rule == specifiedScope[i]
                filter == filterScopeTrimmed[i]
            IN /\ ~(filter = <<"*">> /\ rule # <<"*">> /\ ~positive)
               /\ (rule = <<"*">> \/ filter = <<"*">> \/ rule = filter)

\* the loop returns false at the first entry that fails, true otherwise
scopeMatches(specifiedScope, filterScope, positive) ==
  IF Len(specifiedScope) > Len(filterScope) THEN FALSE
  ELSE LET filterScopeTrimmed ==
             IF Len(specifiedScope) = Len(filterScope) THEN filterScope
             ELSE SubSeq(filterScope,
                         Len(filterScope) - Len(specifiedScope) + 1,
                         Len(filterScope))
       IN \A i \in 1..Len(filterScopeTrimmed) :
            LET rule == specifiedScope[i]
                filter == filterScopeTrimmed[i]
            IN /\ ~(filter = <<"*">> /\ rule # <<"*">> /\ ~positive)
               /\ (rule = <<"*">> \/ filter = <<"*">> \/ rule = filter)

\* the loop backwards through the specs, from index i down
RECURSIVE MatchFrom(_, _, _)
MatchFrom(specs, filterScope, i) ==
  IF i = 0 THEN "undefined"
  ELSE IF scopeMatches(specs[i].scope, filterScope, specs[i].positive)
  THEN (IF specs[i].positive THEN "true" ELSE "false")
  ELSE MatchFrom(specs, filterScope, i - 1)

\* "true", "false", "undefined" or "throw"
stringMatches(behaviorString, filter) ==
  LET specs == parseSpecs(behaviorString)
      filterScope == parseScope(filter)
  IN IF specs.threw THEN "throw"
     ELSE IF Forbidden(filterScope) THEN "throw"
     ELSE MatchFrom(specs.specs, filterScope, Len(specs.specs))

\* mutation: the strings are joined last first
RECURSIVE joinBehaviorsReversed(_)
joinBehaviorsReversed(strings) ==
  IF strings = <<>> THEN <<>>
  ELSE LET str == joinBehaviorsReversed(Tail(strings))
       IN IF Head(strings) = <<>> THEN str
          ELSE IF str = <<>> THEN Head(strings)
          ELSE str \o <<" ">> \o Head(strings)

\* the strings that are not empty, joined by a space
RECURSIVE joinBehaviors(_)
joinBehaviors(strings) ==
  IF strings = <<>> THEN <<>>
  ELSE LET str == joinBehaviors(SubSeq(strings, 1, Len(strings) - 1))
           string == strings[Len(strings)]
       IN IF string = <<>> THEN str
          ELSE IF str = <<>> THEN string
          ELSE str \o <<" ">> \o string

\* the entity, the entity types (the second is never registered), and the
\* behavior strings and callbacks handed to the Behavior object
Entities == {"e1"}
EntityTypes == {"t", "u"}
GlobalDefaults == {<<>>, <<"-", "a">>}
TypeDefaults == {<<>>, <<"create">>}
AddedDefaults == {<<"-", "b", ":", "a">>}
DefaultCallbacks ==
  { [e \in Entities |-> <<"-", "a">>], [e \in Entities |-> <<"+", "b", ":", "*">>] }
ConfiguredCallbacks == { [e \in Entities |-> <<"a">>], [e \in Entities |-> <<>>] }
Filters == {<<"b", ":", "a">>, <<"*">>, <<"create">>}

BehaviorInit ==
  /\ makeDestructureHyperCache = <<>>
  /\ makingDestructureHyperCache = <<>>
  /\ makeDestructureCache = <<>>
  /\ makingDestructureCache = <<>>
  /\ batch = <<>>
  /\ requests = <<>>
  /\ delivered = <<>>
  /\ steps = <<OtherStep>>
  /\ owner = <<>>
  /\ calls = <<>>
  /\ returned = NoResult
  /\ globalBehaviorDefaults \in GlobalDefaults
  /\ behaviorEntities = <<>>
  /\ frozen = FALSE
  /\ atFreeze = <<>>
  /\ NewGather
  /\ NewWait

\* !this.behaviorEntities[entityType]
Unregistered(entityType) == entityType \notin DOMAIN behaviorEntities

\* the record of a call that hands back nothing, or throws
Outcome(call, threw) == [call |-> call, threw |-> threw]

\* the string getBehaviorForEntity hands back for a registered type
BehaviorOf(entityType, entity) ==
  LET behaviorEntity == behaviorEntities[entityType]
  IN IF entity \in DOMAIN behaviorEntity.cache
     THEN behaviorEntity.cache[entity]
     ELSE joinBehaviors(
            <<globalBehaviorDefaults, behaviorEntity.defaultBehavior>>
              \o [i \in 1..Len(behaviorEntity.getEntityDefaultBehaviorCallbacks)
                    |-> behaviorEntity.getEntityDefaultBehaviorCallbacks[i][entity]]
              \o <<behaviorEntity.getEntityConfiguredBehavior[entity]>>)

\* Object.freeze of the object, of behaviorEntities and of each of its records
freeze ==
  /\ frozen' = TRUE
  /\ atFreeze' =
       IF frozen THEN atFreeze
       ELSE [entityType \in DOMAIN behaviorEntities |->
               [entity \in Entities |-> BehaviorOf(entityType, entity)]]
  /\ returned' = Outcome("freeze", FALSE)
  /\ UNCHANGED <<accessVars, gatherVars, waitVars, globalBehaviorDefaults, behaviorEntities>>

\* the assignment to a property of the frozen behaviorEntities throws
registerEntity(entityType, getEntityConfiguredBehavior, defaultBehavior) ==
  /\ IF frozen
     THEN /\ returned' = Outcome("registerEntity", TRUE)
          /\ UNCHANGED behaviorEntities
     ELSE /\ behaviorEntities' =
               MapSet(behaviorEntities, entityType,
                      [defaultBehavior |-> defaultBehavior,
                       getEntityDefaultBehaviorCallbacks |-> <<>>,
                       getEntityConfiguredBehavior |-> getEntityConfiguredBehavior,
                       cache |-> <<>>])
          /\ returned' = Outcome("registerEntity", FALSE)
  /\ UNCHANGED <<accessVars, gatherVars, waitVars, globalBehaviorDefaults, frozen, atFreeze>>

\* assertEntity throws; the assignment to a property of a frozen record throws
addEntityTypeDefaultBehavior(entityType, behavior) ==
  /\ IF Unregistered(entityType) \/ frozen
     THEN /\ returned' = Outcome("addEntityTypeDefaultBehavior", TRUE)
          /\ UNCHANGED behaviorEntities
     ELSE /\ Len(behaviorEntities[entityType].defaultBehavior) + Len(behavior)
               < MaxDefaultLen
          /\ behaviorEntities' =
               [behaviorEntities EXCEPT
                  ![entityType].defaultBehavior =
                    IF @ # <<>> THEN @ \o <<" ">> \o behavior ELSE behavior]
          /\ returned' = Outcome("addEntityTypeDefaultBehavior", FALSE)
  /\ UNCHANGED <<accessVars, gatherVars, waitVars, globalBehaviorDefaults, frozen, atFreeze>>

\* mutation: the push onto the callbacks of a frozen object throws
addEntityDefaultBehaviorFrozen(entityType, getEntityDefaultBehavior) ==
  /\ IF Unregistered(entityType) \/ frozen
     THEN /\ returned' = Outcome("addEntityDefaultBehavior", TRUE)
          /\ UNCHANGED behaviorEntities
     ELSE /\ Len(behaviorEntities[entityType].getEntityDefaultBehaviorCallbacks)
               < MaxCallbacks
          /\ behaviorEntities' =
               [behaviorEntities EXCEPT
                  ![entityType].getEntityDefaultBehaviorCallbacks =
                    Append(@, getEntityDefaultBehavior)]
          /\ returned' = Outcome("addEntityDefaultBehavior", FALSE)
  /\ UNCHANGED <<accessVars, gatherVars, waitVars, globalBehaviorDefaults, frozen, atFreeze>>

\* assertEntity throws; the push onto the callbacks array, which freeze()
\* does not freeze, succeeds
addEntityDefaultBehavior(entityType, getEntityDefaultBehavior) ==
  /\ IF Unregistered(entityType)
     THEN /\ returned' = Outcome("addEntityDefaultBehavior", TRUE)
          /\ UNCHANGED behaviorEntities
     ELSE /\ Len(behaviorEntities[entityType].getEntityDefaultBehaviorCallbacks)
               < MaxCallbacks
          /\ behaviorEntities' =
               [behaviorEntities EXCEPT
                  ![entityType].getEntityDefaultBehaviorCallbacks =
                    Append(@, getEntityDefaultBehavior)]
          /\ returned' = Outcome("addEntityDefaultBehavior", FALSE)
  /\ UNCHANGED <<accessVars, gatherVars, waitVars, globalBehaviorDefaults, frozen, atFreeze>>

\* the record of a call of getBehaviorForEntity or entityMatches
Answer(call, entityType, entity, filter, threw, result) ==
  [call |-> call, entityType |-> entityType, entity |-> entity,
   filter |-> filter, threw |-> threw, result |-> result]

\* behaviorEntities after cache.set(entity, finalString)
Cached(entityType, entity) ==
  [behaviorEntities EXCEPT
     ![entityType].cache = MapSet(@, entity, BehaviorOf(entityType, entity))]

getBehaviorForEntity(entityType, entity) ==
  /\ IF Unregistered(entityType)
     THEN /\ returned' = Answer("getBehaviorForEntity", entityType, entity,
                                <<>>, TRUE, <<>>)
          /\ UNCHANGED behaviorEntities
     ELSE /\ behaviorEntities' = Cached(entityType, entity)
          /\ returned' = Answer("getBehaviorForEntity", entityType, entity,
                                <<>>, FALSE, BehaviorOf(entityType, entity))
  /\ UNCHANGED <<accessVars, gatherVars, waitVars, globalBehaviorDefaults, frozen, atFreeze>>

entityMatches(entityType, entity, filter) ==
  /\ IF Unregistered(entityType)
     THEN /\ returned' = Answer("entityMatches", entityType, entity, filter,
                                TRUE, "throw")
          /\ UNCHANGED behaviorEntities
     ELSE LET result == stringMatches(BehaviorOf(entityType, entity), filter)
          IN /\ behaviorEntities' = Cached(entityType, entity)
             /\ returned' = Answer("entityMatches", entityType, entity, filter,
                                   result = "throw", result)
  /\ UNCHANGED <<accessVars, gatherVars, waitVars, globalBehaviorDefaults, frozen, atFreeze>>

BehaviorNext ==
  \/ freeze
  \/ \E getEntityConfiguredBehavior \in ConfiguredCallbacks,
        defaultBehavior \in TypeDefaults :
       registerEntity("t", getEntityConfiguredBehavior, defaultBehavior)
  \/ \E entityType \in EntityTypes, behavior \in AddedDefaults :
       addEntityTypeDefaultBehavior(entityType, behavior)
  \/ \E entityType \in EntityTypes, cb \in DefaultCallbacks :
       addEntityDefaultBehavior(entityType, cb)
  \/ \E entityType \in EntityTypes, entity \in Entities :
       getBehaviorForEntity(entityType, entity)
  \/ \E entity \in Entities, filter \in Filters :
       entityMatches("t", entity, filter)
  \/ \E entity \in Entities : entityMatches("u", entity, <<"*">>)

BehaviorSpec == BehaviorInit /\ [][BehaviorNext]_vars

(* scopeMatches applied to scopes of bounded length *)
MaxScopeLen == 3

ScopeParts == {<<"a">>, <<"b">>, <<"*">>}

RECURSIVE Scopes(_)
Scopes(n) ==
  IF n = 0 THEN {<<>>}
  ELSE Scopes(n - 1)
         \cup {Append(scope, part) :
                 scope \in {q \in Scopes(n - 1) : Len(q) = n - 1},
                 part \in ScopeParts}

\* one call of scopeMatches per behaviour
CallScopeMatches(specifiedScope, filterScope, positive) ==
  /\ returned = NoResult
  /\ returned' = [call |-> "scopeMatches", specifiedScope |-> specifiedScope,
                  filterScope |-> filterScope, positive |-> positive,
                  result |-> scopeMatches(specifiedScope, filterScope, positive)]
  /\ UNCHANGED <<accessVars, gatherVars, waitVars, behaviorVars>>

ScopeNext ==
  \E specifiedScope \in Scopes(MaxScopeLen) \ {<<>>},
     filterScope \in Scopes(MaxScopeLen) \ {<<>>}, positive \in BOOLEAN :
    CallScopeMatches(specifiedScope, filterScope, positive)

ScopeSpec == Init /\ [][ScopeNext]_vars

(* ---------------------------------------------------------------------- *)
(* Properties of Behavior                                                  *)
(* ---------------------------------------------------------------------- *)
\* C27: once freeze() has run, a later registerEntity or
\* addEntityTypeDefaultBehavior or addEntityDefaultBehavior changes nothing:
\* the string of every entity is what it was right after freeze().
C27_FrozenBehaviorFixed ==
  frozen =>
    /\ \A entityType \in DOMAIN atFreeze, entity \in Entities :
         BehaviorOf(entityType, entity) = atFreeze[entityType][entity]
    /\ DOMAIN behaviorEntities = DOMAIN atFreeze

\* the scope with "*" entries in front up to n entries
Pad(scope, n) ==
  [i \in 1..n |->
     IF i <= n - Len(scope) THEN <<"*">> ELSE scope[i - (n - Len(scope))]]

\* C28: a specified scope longer than the filter scope never matches, and a
\* shorter one matches exactly when the scope padded in front with "*" to the
\* filter's length does.
C28_ShortScopePadded ==
  returned.call = "scopeMatches" =>
    IF Len(returned.specifiedScope) > Len(returned.filterScope)
    THEN returned.result = FALSE
    ELSE returned.result =
           scopeMatches(Pad(returned.specifiedScope, Len(returned.filterScope)),
                        returned.filterScope, returned.positive)

C28_Witness ==
  /\ returned.call = "scopeMatches"
  /\ Len(returned.specifiedScope) = 1
  /\ Len(returned.filterScope) = 3
  /\ returned.filterScope[1] = <<"*">>
  /\ ~returned.positive
  /\ returned.result = TRUE

\* the strings joined for an entity, in the order of the join
Parts(entityType, entity) ==
  LET behaviorEntity == behaviorEntities[entityType]
  IN <<globalBehaviorDefaults, behaviorEntity.defaultBehavior>>
       \o [i \in 1..Len(behaviorEntity.getEntityDefaultBehaviorCallbacks) |->
             behaviorEntity.getEntityDefaultBehaviorCallbacks[i][entity]]
       \o <<behaviorEntity.getEntityConfiguredBehavior[entity]>>

\* the specs of the parts that are not empty, in order
RECURSIVE OrderedSpecs(_)
OrderedSpecs(parts) ==
  IF parts = <<>> THEN <<>>
  ELSE (IF Head(parts) = <<>> THEN <<>> ELSE parseSpecs(Head(parts)).specs)
         \o OrderedSpecs(Tail(parts))

\* the polarity of the last spec whose scope matches, "undefined" if none
LastWins(specs, filterScope) ==
  LET matching == {i \in 1..Len(specs) :
                     scopeMatches(specs[i].scope, filterScope, specs[i].positive)}
  IN IF matching = {} THEN "undefined"
     ELSE LET last == CHOOSE i \in matching : \A j \in matching : j <= i
          IN IF specs[last].positive THEN "true" ELSE "false"

\* C30 as stated: entityMatches answers with the last matching spec of the
\* parts registered for the entity, joined in order.
C30_Original ==
  (returned.call = "entityMatches" /\ ~Unregistered(returned.entityType)) =>
    returned.result =
      LastWins(OrderedSpecs(Parts(returned.entityType, returned.entity)),
               parseScope(returned.filter))

\* C30: entityMatches answers with the polarity of the last matching spec of
\* the string cached for the entity, "undefined" when none matches; it throws
\* when a spec or the filter ends in "create". The string is cached at the
\* first call for the entity since its type was registered, as the join of the
\* parts that are not empty in the order global defaults, type default,
\* callbacks in registration order, configured behavior (all parts empty: one
\* positive spec with an empty scope); later registrations do not change it.
C30_LastSpecOfCachedJoin ==
  [][(returned'.call = "entityMatches" /\ ~Unregistered(returned'.entityType))
       => LET entityType == returned'.entityType
              entity == returned'.entity
              string == behaviorEntities'[entityType].cache[entity]
              specs == ParseFragments(SplitSpaces(string))
              parts == Parts(entityType, entity)
              filterScope == parseScope(returned'.filter)
          IN /\ IF entity \in DOMAIN behaviorEntities[entityType].cache
                THEN string = behaviorEntities[entityType].cache[entity]
                ELSE specs =
                       IF OrderedSpecs(parts) = <<>>
                       THEN <<[positive |-> TRUE, scope |-> <<(<<>>)>>]>>
                       ELSE OrderedSpecs(parts)
             /\ returned'.result =
                  IF \/ \E i \in 1..Len(specs) : Forbidden(specs[i].scope)
                     \/ Forbidden(filterScope)
                  THEN "throw"
                  ELSE LastWins(specs, filterScope)]_vars

C30_Witness ==
  /\ returned.call = "entityMatches"
  /\ returned.result = "false"
  /\ ~Unregistered(returned.entityType)
  /\ Len(behaviorEntities[returned.entityType].getEntityDefaultBehaviorCallbacks) = 2
  /\ behaviorEntities[returned.entityType].defaultBehavior # <<>>
  /\ globalBehaviorDefaults # <<>>

(* ---------------------------------------------------------------------- *)
(* planToMermaid: the steps of the buckets are collected before rendering  *)
(* ---------------------------------------------------------------------- *)
MaxStepId == 2
MaxBucketSteps == 2

\* a step id is a number or a string of digits
StepId(t, v) == [t |-> t, v |-> v]

StepIdValues == {StepId(t, v) : t \in {"number", "string"}, v \in 1..MaxStepId}

\* the property key of stepById[id]: the number 1 and the string "1" are both
\* the key "1"
PropertyKey(id) == id.v

StepJSONs ==
  {[id |-> id, dependencyIds |-> dependencyIds] :
     id \in StepIdValues, dependencyIds \in {<<>>, <<StepId("number", 1)>>}}

\* the sequences of at most n steps
RECURSIVE StepLists(_)
StepLists(n) ==
  IF n = 0 THEN {<<>>}
  ELSE StepLists(n - 1)
         \cup {Append(l, step) : l \in {q \in StepLists(n - 1) : Len(q) = n - 1},
                                 step \in StepJSONs}

Bucket(id, bucketSteps, children) ==
  [id |-> id, steps |-> bucketSteps, children |-> children]

\* the child buckets: none, one or two, each with at most one step
ChildLists ==
  {<<>>}
    \cup {<<Bucket(1, l, <<>>)>> : l \in StepLists(1)}
    \cup {<<Bucket(1, l1, <<>>), Bucket(2, l2, <<>>)>> :
            l1 \in StepLists(1), l2 \in StepLists(1)}

PlanJSONs ==
  {[version |-> version, rootBucket |-> Bucket(0, bucketSteps, children)] :
     version \in {"v1", "v2"}, bucketSteps \in StepLists(MaxBucketSteps),
     children \in ChildLists}

\* the steps with k dependencies, then those with fewer, each in their order
RECURSIVE SortFrom(_, _)
SortFrom(bucketSteps, k) ==
  IF k < 0 THEN <<>>
  ELSE SelectSeq(bucketSteps, LAMBDA step : Len(step.dependencyIds) = k)
         \o SortFrom(bucketSteps, k - 1)

\* [...bucket.steps].sort((a, z) => z.dependencyIds.length - a.dependencyIds.length)
Sorted(bucketSteps) ==
  LET lengths == {Len(bucketSteps[i].dependencyIds) : i \in 1..Len(bucketSteps)}
  IN IF lengths = {} THEN <<>>
     ELSE SortFrom(bucketSteps, CHOOSE k \in lengths : \A j \in lengths : j <= k)

\* what has been collected: the keys of stepById, sortedSteps, and whether the
\* duplicate check has thrown
Collected(stepById, sortedSteps, threw) ==
  [stepById |-> stepById, sortedSteps |-> sortedSteps, threw |-> threw]

\* for (const step of sorted) ...
RECURSIVE CollectSteps(_, _)
CollectSteps(sorted, acc) ==
  IF sorted = <<>> \/ acc.threw THEN acc
  ELSE IF PropertyKey(Head(sorted).id) \in acc.stepById
  THEN Collected(acc.stepById, acc.sortedSteps, TRUE)
  ELSE CollectSteps(Tail(sorted),
                    Collected(acc.stepById \cup {PropertyKey(Head(sorted).id)},
                              Append(acc.sortedSteps, Head(sorted)), FALSE))

\* mutation: the child buckets are not visited
RECURSIVE extractStepsRootOnly(_, _)
extractStepsRootOnly(bucket, acc) ==
  IF acc.threw THEN acc ELSE CollectSteps(Sorted(bucket.steps), acc)

\* extractSteps(bucket): its steps, then its children in order
RECURSIVE extractSteps(_, _)
RECURSIVE ExtractChildren(_, _)
extractSteps(bucket, acc) ==
  IF acc.threw THEN acc
  ELSE ExtractChildren(bucket.children,
                       CollectSteps(Sorted(bucket.steps), acc))

ExtractChildren(children, acc) ==
  IF children = <<>> \/ acc.threw THEN acc
  ELSE ExtractChildren(Tail(children), extractSteps(Head(children), acc))

\* throws for a version other than v1 and when extractSteps throws; otherwise
\* the diagram is rendered from the steps collected
planToMermaid(planJSON) ==
  IF planJSON.version # "v1" THEN Collected({}, <<>>, TRUE)
  ELSE extractSteps(planJSON.rootBucket, Collected({}, <<>>, FALSE))

\* one call of planToMermaid per behaviour
CallPlanToMermaid(planJSON) ==
  /\ returned = NoResult
  /\ returned' = [call |-> "planToMermaid", planJSON |-> planJSON,
                  result |-> planToMermaid(planJSON)]
  /\ UNCHANGED <<accessVars, gatherVars, waitVars, behaviorVars>>

MermaidNext == \E planJSON \in PlanJSONs : CallPlanToMermaid(planJSON)

MermaidSpec == Init /\ [][MermaidNext]_vars

\* the ids of the steps of a bucket and of its children, one per occurrence
RECURSIVE StepIds(_)
RECURSIVE ChildStepIds(_)
StepIds(bucket) ==
  [i \in 1..Len(bucket.steps) |-> bucket.steps[i].id]
    \o ChildStepIds(bucket.children)

ChildStepIds(children) ==
  IF children = <<>> THEN <<>>
  ELSE StepIds(Head(children)) \o ChildStepIds(Tail(children))

\* some step id occurs twice in the plan
Duplicated(planJSON) ==
  LET ids == StepIds(planJSON.rootBucket)
  IN \E i, j \in 1..Len(ids) : i < j /\ ids[i] = ids[j]

\* C29: planToMermaid throws for a plan whose version is not v1 and for a plan
\* in which a step id occurs twice, in one bucket or in two.
C29_DuplicateOrVersionThrows ==
  returned.call = "planToMermaid" =>
    ((returned.planJSON.version # "v1" \/ Duplicated(returned.planJSON))
       => returned.result.threw)

C29_Witness ==
  /\ returned.call = "planToMermaid"
  /\ returned.planJSON.version = "v1"
  /\ returned.result.threw
  /\ Len(returned.planJSON.rootBucket.children) = 2
  /\ Len(returned.planJSON.rootBucket.steps) = 1
  /\ StepIds(returned.planJSON.rootBucket.children[1])
       = StepIds(returned.planJSON.rootBucket.children[2])
  /\ StepIds(returned.planJSON.rootBucket.children[1])
       # StepIds(Bucket(0, returned.planJSON.rootBucket.steps, <<>>))

(* ---------------------------------------------------------------------- *)
(* wait-for-postgres: retry pool.connect() and 'select 1' until one works  *)
(* ---------------------------------------------------------------------- *)
\* for (let n = 1; n < 30; n++)
lastN == 30

\* const delay = 100 * n
delayPerAttempt == 100

\* new pg.Pool({ connectionString }): no max is given, the pool holds at most
\* ten clients; a client leaves the pool when its connection fails or when it
\* is released
poolMax == 10

\* pool.connect() settles while the pool is not full; when it is full the
\* request waits for a release (no connectionTimeoutMillis is given)
PoolCanConnect == pool.clients < poolMax

\* pool.connect() is called
PoolConnectCalled == [pool EXCEPT !.connects = @ + 1]

\* console.log("Connection successful"); pool.end();
AfterLoop ==
  /\ console' = [console EXCEPT !.successful = TRUE]
  /\ pool' = [pool EXCEPT !.ending = TRUE]
  /\ waitPc' = "exited"

\* catch (e): the delay is computed and logged, then sleep(delay) is awaited
Catch ==
  /\ console' = [console EXCEPT !.failed = @ + 1,
                                !.delay = delayPerAttempt * attemptN]
  /\ waitPc' = "sleep"
  /\ UNCHANGED attemptN

\* main() is called: the first attempt starts
waitMain ==
  /\ waitPc = "start"
  /\ attemptN' = 1
  /\ pool' = PoolConnectCalled
  /\ waitPc' = "connect"
  /\ UNCHANGED <<console, accessVars, returned, behaviorVars, gatherVars>>

\* await pool.connect() yields a client; client.query("select 1") is called
connectResolved ==
  /\ waitPc = "connect"
  /\ PoolCanConnect
  /\ pool' = [pool EXCEPT !.clients = @ + 1]
  /\ waitPc' = "query"
  /\ UNCHANGED <<attemptN, console, accessVars, returned, behaviorVars,
                 gatherVars>>

\* await pool.connect() throws: the client that failed to connect is dropped
connectRejected ==
  /\ waitPc = "connect"
  /\ PoolCanConnect
  /\ Catch
  /\ UNCHANGED <<pool, accessVars, returned, behaviorVars, gatherVars>>

\* await client.query("select 1") returns: client.release(); break; and the
\* statements after the loop
queryResolved ==
  /\ waitPc = "query"
  /\ console' = [console EXCEPT !.connected = TRUE, !.successful = TRUE]
  /\ pool' = [pool EXCEPT !.clients = @ - 1, !.ending = TRUE]
  /\ waitPc' = "exited"
  /\ UNCHANGED <<attemptN, accessVars, returned, behaviorVars, gatherVars>>

\* await client.query("select 1") throws: client.release() is skipped
queryRejected ==
  /\ waitPc = "query"
  /\ Catch
  /\ UNCHANGED <<pool, accessVars, returned, behaviorVars, gatherVars>>

\* await sleep(delay) returns: n++, then the next attempt or the end of the loop
sleepResolved ==
  /\ waitPc = "sleep"
  /\ attemptN' = attemptN + 1
  /\ IF attemptN + 1 < lastN
     THEN /\ pool' = PoolConnectCalled
          /\ waitPc' = "connect"
          /\ UNCHANGED console
     ELSE AfterLoop
  /\ UNCHANGED <<accessVars, returned, behaviorVars, gatherVars>>

WaitNext ==
  \/ waitMain
  \/ connectResolved
  \/ connectRejected
  \/ queryResolved
  \/ queryRejected
  \/ sleepResolved

WaitSpec == Init /\ [][WaitNext]_vars

\* every promise that can settle settles, every timer fires
WaitFairSpec == Init /\ [][WaitNext]_vars /\ WF_vars(WaitNext)

\* C33 (the part about the loop): at most 29 calls of pool.connect(), none
\* after an attempt has succeeded, the delay after the n-th failed attempt is
\* 100*n, and the pool is ended once the loop is left.
C33_LoopShape ==
  /\ pool.connects < lastN
  /\ console.connected => waitPc = "exited"
  /\ waitPc = "sleep" => console.delay = delayPerAttempt * console.failed
  /\ waitPc = "exited" => pool.ending

C34_SuccessOnlyIfConnected ==
  /\ console.successful => console.connected
  /\ pool.ending => pool.clients = 0

(* ---------------------------------------------------------------------- *)
(* PgTablesPlugin gather helpers: getSourceBuilder, getSource, main        *)
(* ---------------------------------------------------------------------- *)
MaxBuilders == 2

Databases == {"d1", "d2"}

\* a table, and a partition of a table
PgClasses ==
  { [_id |-> 1, relkind |-> "r", relispartition |-> FALSE],
    [_id |-> 2, relkind |-> "r", relispartition |-> TRUE] }

\* a Map keeps its entries in insertion order: the outer map is a sequence of
\* [databaseName, classes], classes a sequence of [pgClass, promise]
DatabaseIndex(byDatabase, databaseName) ==
  IF \E i \in DOMAIN byDatabase : byDatabase[i].databaseName = databaseName
  THEN CHOOSE i \in DOMAIN byDatabase : byDatabase[i].databaseName = databaseName
  ELSE 0

ClassIndex(classes, pgClass) ==
  IF \E j \in DOMAIN classes : classes[j].pgClass = pgClass
  THEN CHOOSE j \in DOMAIN classes : classes[j].pgClass = pgClass
  ELSE 0

\* sourceBuilderByPgClassByDatabase.get(databaseName)?.get(pgClass); 0 when
\* there is none
BuilderPromiseOf(byDatabase, databaseName, pgClass) ==
  LET i == DatabaseIndex(byDatabase, databaseName)
  IN IF i = 0 THEN 0
     ELSE LET j == ClassIndex(byDatabase[i].classes, pgClass)
          IN IF j = 0 THEN 0 ELSE byDatabase[i].classes[j].promise

\* mutation: the promise is not stored
SetBuilderPromiseNever(byDatabase, databaseName, pgClass, promise) == byDatabase

\* the inner map is created when missing, then sourceBuilderByPgClass.set(...)
SetBuilderPromise(byDatabase, databaseName, pgClass, promise) ==
  LET withDatabase ==
        IF DatabaseIndex(byDatabase, databaseName) = 0
        THEN Append(byDatabase, [databaseName |-> databaseName, classes |-> <<>>])
        ELSE byDatabase
      i == DatabaseIndex(withDatabase, databaseName)
  IN [withDatabase EXCEPT
        ![i].classes = Append(@, [pgClass |-> pgClass, promise |-> promise])]

\* a promise made by getSourceBuilder: where its async function is waiting,
\* and the source builder it resolved with (0: null, or not resolved yet); a
\* source builder is named by the promise that built it
BuilderPromise(databaseName, pgClass, awaiting, value) ==
  [databaseName |-> databaseName, pgClass |-> pgClass, awaiting |-> awaiting, value |-> value]

\* getSourceBuilder(info, databaseName, pgClass): the promise in the map, or a
\* new one whose async function has run up to its first await
getSourceBuilder(databaseName, pgClass) ==
  LET existing ==
        BuilderPromiseOf(sourceBuilderByPgClassByDatabase, databaseName, pgClass)
      promise == Len(sourceBuilderPromises) + 1
  IN /\ IF existing # 0
        THEN /\ returned' = [call |-> "getSourceBuilder",
                             databaseName |-> databaseName, pgClass |-> pgClass,
                             result |-> existing, fresh |-> FALSE]
             /\ UNCHANGED <<sourceBuilderByPgClassByDatabase, sourceBuilderPromises>>
        ELSE /\ promise <= MaxBuilders
             /\ sourceBuilderPromises' =
                  Append(sourceBuilderPromises,
                         BuilderPromise(databaseName, pgClass, "getNamespace", 0))
             /\ sourceBuilderByPgClassByDatabase' =
                  SetBuilderPromise(sourceBuilderByPgClassByDatabase,
                                    databaseName, pgClass, promise)
             /\ returned' = [call |-> "getSourceBuilder",
                             databaseName |-> databaseName, pgClass |-> pgClass,
                             result |-> promise, fresh |-> TRUE]
     /\ UNCHANGED <<sourceBySourceBuilder, detailsBySourceBuilder, sourcePromises,
                    processed, mainState, pgSources, accessVars, behaviorVars,
                    waitVars>>

\* the async function resolves with null
ReturnNull(promise) ==
  /\ sourceBuilderPromises' =
       [sourceBuilderPromises EXCEPT ![promise].awaiting = "resolved", ![promise].value = 0]
  /\ UNCHANGED detailsBySourceBuilder

\* the async function waits for the next helper
AwaitNext(promise, awaiting) ==
  /\ sourceBuilderPromises' =
       [sourceBuilderPromises EXCEPT ![promise].awaiting = awaiting]
  /\ UNCHANGED detailsBySourceBuilder

BuilderUnchanged ==
  UNCHANGED <<sourceBuilderByPgClassByDatabase, sourceBySourceBuilder,
              sourcePromises, processed, mainState, pgSources, accessVars,
              behaviorVars, waitVars>>

\* await getNamespace(...) returns: no namespace, a namespace outside the
\* schemas, a class that is not a table, view, materialized view or partitioned
\* table, or a partition give null; otherwise getAttributesForClass is called
getNamespaceResolved(promise, namespace) ==
  /\ promise \in DOMAIN sourceBuilderPromises
  /\ sourceBuilderPromises[promise].awaiting = "getNamespace"
  /\ LET pgClass == sourceBuilderPromises[promise].pgClass
     IN IF namespace \in {"none", "other"}
        THEN ReturnNull(promise)
        ELSE IF pgClass.relkind \notin {"r", "v", "m", "p"} \/ pgClass.relispartition
        THEN ReturnNull(promise)
        ELSE AwaitNext(promise, "getAttributesForClass")
  /\ returned' = NoResult
  /\ BuilderUnchanged

\* await getAttributesForClass(...) returns: getCodecFromClass is called
getAttributesForClassResolved(promise) ==
  /\ promise \in DOMAIN sourceBuilderPromises
  /\ sourceBuilderPromises[promise].awaiting = "getAttributesForClass"
  /\ AwaitNext(promise, "getCodecFromClass")
  /\ returned' = NoResult
  /\ BuilderUnchanged

\* await getCodecFromClass(...) returns: null without a codec, otherwise
\* getConstraintsForClass is called
getCodecFromClassResolved(promise, codec) ==
  /\ promise \in DOMAIN sourceBuilderPromises
  /\ sourceBuilderPromises[promise].awaiting = "getCodecFromClass"
  /\ IF codec THEN AwaitNext(promise, "getConstraintsForClass")
     ELSE ReturnNull(promise)
  /\ returned' = NoResult
  /\ BuilderUnchanged

\* mutation: the details of the source builder are not stored
SetDetailsNever(details, sourceBuilder, databaseName, pgClass) == details

\* info.state.detailsBySourceBuilder.set(sourceBuilder, { databaseName, pgClass })
SetDetails(details, sourceBuilder, databaseName, pgClass) ==
  MapSet(details, sourceBuilder, [databaseName |-> databaseName, pgClass |-> pgClass])

\* await getConstraintsForClass(...) returns: the source builder is made, its
\* details are stored and the promise resolves with it
getConstraintsForClassResolved(promise) ==
  /\ promise \in DOMAIN sourceBuilderPromises
  /\ sourceBuilderPromises[promise].awaiting = "getConstraintsForClass"
  /\ detailsBySourceBuilder' =
       SetDetails(detailsBySourceBuilder, promise,
                  sourceBuilderPromises[promise].databaseName,
                  sourceBuilderPromises[promise].pgClass)
  /\ sourceBuilderPromises' =
       [sourceBuilderPromises EXCEPT ![promise].awaiting = "resolved",
                                     ![promise].value = promise]
  /\ returned' = NoResult
  /\ BuilderUnchanged

\* the source builders that exist: the values of the resolved promises
SourceBuilders ==
  {sourceBuilderPromises[p].value : p \in DOMAIN sourceBuilderPromises} \ {0}

\* a promise made by getSource: where its async function is waiting and the
\* source it resolved with (0: not resolved); a source is named by the promise
\* that built it
SourcePromise(sourceBuilder, awaiting, value) ==
  [sourceBuilder |-> sourceBuilder, awaiting |-> awaiting, value |-> value]

\* info.process(hook, event) is called
Process(log, hook, sourceBuilder) ==
  Append(log, [hook |-> hook, sourceBuilder |-> sourceBuilder])

\* sourceBySourceBuilder.get(sourceBuilder); 0 when there is none
SourcePromiseOf(sourceBuilder) ==
  IF sourceBuilder \in DOMAIN sourceBySourceBuilder
  THEN sourceBySourceBuilder[sourceBuilder] ELSE 0

\* mutation: the promise is not stored
SetSourcePromiseNever(bySourceBuilder, sourceBuilder, promise) == bySourceBuilder

\* info.state.sourceBySourceBuilder.set(sourceBuilder, source)
SetSourcePromise(bySourceBuilder, sourceBuilder, promise) ==
  MapSet(bySourceBuilder, sourceBuilder, promise)

\* what getSource(info, sourceBuilder) does to the state: nothing when the map
\* holds a promise; otherwise a new promise whose async function has run up to
\* its first await (it throws when the details are missing), stored in the map
GetSource(sourceBuilder) ==
  IF SourcePromiseOf(sourceBuilder) # 0
  THEN UNCHANGED <<sourceBySourceBuilder, sourcePromises, processed>>
  ELSE /\ IF sourceBuilder \in DOMAIN detailsBySourceBuilder
          THEN /\ sourcePromises' =
                    Append(sourcePromises,
                           SourcePromise(sourceBuilder, "relations", 0))
               /\ processed' =
                    Process(processed, "pgTables:PgSourceBuilder:relations",
                            sourceBuilder)
          ELSE /\ sourcePromises' =
                    Append(sourcePromises,
                           SourcePromise(sourceBuilder, "rejected", 0))
               /\ UNCHANGED processed
       /\ sourceBySourceBuilder' =
            SetSourcePromise(sourceBySourceBuilder, sourceBuilder,
                             Len(sourcePromises) + 1)

\* the promise getSource(info, sourceBuilder) returns
GetSourceResult(sourceBuilder) ==
  IF SourcePromiseOf(sourceBuilder) # 0 THEN SourcePromiseOf(sourceBuilder)
  ELSE Len(sourcePromises) + 1

\* a caller that holds a source builder calls getSource
getSource(sourceBuilder) ==
  /\ sourceBuilder \in SourceBuilders
  /\ GetSource(sourceBuilder)
  /\ returned' = [call |-> "getSource", sourceBuilder |-> sourceBuilder,
                  result |-> GetSourceResult(sourceBuilder),
                  fresh |-> SourcePromiseOf(sourceBuilder) = 0]
  /\ UNCHANGED <<sourceBuilderByPgClassByDatabase, detailsBySourceBuilder,
                 sourceBuilderPromises, mainState, pgSources, accessVars,
                 behaviorVars, waitVars>>

\* await info.process("pgTables:PgSourceBuilder:relations") returns: the source
\* is built and info.process("pgTables:PgSource") is called
relationsProcessed(promise) ==
  /\ promise \in DOMAIN sourcePromises
  /\ sourcePromises[promise].awaiting = "relations"
  /\ sourcePromises' = [sourcePromises EXCEPT ![promise].awaiting = "PgSource",
                                              ![promise].value = promise]
  /\ processed' = Process(processed, "pgTables:PgSource",
                          sourcePromises[promise].sourceBuilder)
  /\ returned' = NoResult
  /\ UNCHANGED <<sourceBuilderByPgClassByDatabase, sourceBySourceBuilder,
                 detailsBySourceBuilder, sourceBuilderPromises, mainState,
                 pgSources, accessVars, behaviorVars, waitVars>>

\* await info.process("pgTables:PgSource") returns: the promise resolves with
\* the source
sourceProcessed(promise) ==
  /\ promise \in DOMAIN sourcePromises
  /\ sourcePromises[promise].awaiting = "PgSource"
  /\ sourcePromises' = [sourcePromises EXCEPT ![promise].awaiting = "resolved"]
  /\ returned' = NoResult
  /\ UNCHANGED <<sourceBuilderByPgClassByDatabase, sourceBySourceBuilder,
                 detailsBySourceBuilder, sourceBuilderPromises, processed,
                 mainState, pgSources, accessVars, behaviorVars, waitVars>>

\* the position of main: what it awaits, the entry of the outer and of the
\* inner iteration, the promise awaited, and the promises that were in the map
\* when it started
MainState(pc, i, j, promise, atStart) ==
  [pc |-> pc, i |-> i, j |-> j, promise |-> promise, atStart |-> atStart]

\* the two for-of loops step to the next entry of the maps as they are now, or
\* finish
RECURSIVE NextEntry(_, _, _, _)
NextEntry(byDatabase, i, j, atStart) ==
  IF i > Len(byDatabase) THEN MainState("done", i, j, 0, atStart)
  ELSE IF j <= Len(byDatabase[i].classes)
  THEN MainState("sourceBuilder", i, j, byDatabase[i].classes[j].promise, atStart)
  ELSE NextEntry(byDatabase, i + 1, 1, atStart)

\* main(output, info) is called: output.pgSources = [], the loops start
main ==
  /\ mainState.pc = "idle"
  /\ mainState' =
       NextEntry(sourceBuilderByPgClassByDatabase, 1, 1,
                 DOMAIN sourceBuilderPromises)
  /\ returned' = NoResult
  /\ UNCHANGED <<sourceBuilderByPgClassByDatabase, sourceBySourceBuilder,
                 detailsBySourceBuilder, sourceBuilderPromises, sourcePromises,
                 processed, pgSources, accessVars, behaviorVars, waitVars>>

\* await sourceBuilderPromise returns: continue for null, otherwise getSource
\* is called and awaited
mainSourceBuilderResolved ==
  /\ mainState.pc = "sourceBuilder"
  /\ sourceBuilderPromises[mainState.promise].awaiting = "resolved"
  /\ LET sourceBuilder == sourceBuilderPromises[mainState.promise].value
     IN IF sourceBuilder = 0
        THEN /\ mainState' =
                  NextEntry(sourceBuilderByPgClassByDatabase, mainState.i,
                            mainState.j + 1, mainState.atStart)
             /\ UNCHANGED <<sourceBySourceBuilder, sourcePromises, processed>>
        ELSE /\ GetSource(sourceBuilder)
             /\ mainState' = [mainState EXCEPT
                                !.pc = "source",
                                !.promise = GetSourceResult(sourceBuilder)]
  /\ returned' = NoResult
  /\ UNCHANGED <<sourceBuilderByPgClassByDatabase, detailsBySourceBuilder,
                 sourceBuilderPromises, pgSources, accessVars, behaviorVars,
                 waitVars>>

\* await getSource(sourceBuilder) returns: the source is pushed and the loops
\* step on; it throws when the promise was rejected
mainSourceResolved ==
  /\ mainState.pc = "source"
  /\ sourcePromises[mainState.promise].awaiting \in {"resolved", "rejected"}
  /\ IF sourcePromises[mainState.promise].awaiting = "rejected"
     THEN /\ mainState' = [mainState EXCEPT !.pc = "rejected"]
          /\ UNCHANGED pgSources
     ELSE /\ pgSources' = Append(pgSources, sourcePromises[mainState.promise].value)
          /\ mainState' =
               NextEntry(sourceBuilderByPgClassByDatabase, mainState.i,
                         mainState.j + 1, mainState.atStart)
  /\ returned' = NoResult
  /\ UNCHANGED <<sourceBuilderByPgClassByDatabase, sourceBySourceBuilder,
                 detailsBySourceBuilder, sourceBuilderPromises, sourcePromises,
                 processed, accessVars, behaviorVars, waitVars>>

Namespaces == {"none", "other", "public"}

GatherNext ==
  \/ \E databaseName \in Databases, pgClass \in PgClasses :
       getSourceBuilder(databaseName, pgClass)
  \/ \E promise \in 1..MaxBuilders, namespace \in Namespaces :
       getNamespaceResolved(promise, namespace)
  \/ \E promise \in 1..MaxBuilders : getAttributesForClassResolved(promise)
  \/ \E promise \in 1..MaxBuilders, codec \in BOOLEAN :
       getCodecFromClassResolved(promise, codec)
  \/ \E promise \in 1..MaxBuilders : getConstraintsForClassResolved(promise)
  \/ \E sourceBuilder \in 1..MaxBuilders : getSource(sourceBuilder)
  \/ \E promise \in 1..MaxBuilders : relationsProcessed(promise)
  \/ \E promise \in 1..MaxBuilders : sourceProcessed(promise)
  \/ main
  \/ mainSourceBuilderResolved
  \/ mainSourceResolved

GatherSpec == Init /\ [][GatherNext]_vars

\* C31: for one database name and one class there is at most one run of the
\* build, every getSourceBuilder call returns the promise of that run, also
\* while it is pending, and a promise that has resolved with a source builder
\* has that builder's database name and class in detailsBySourceBuilder, so
\* that no getSource call fails for want of them.
C31_OneBuildPerClass ==
  /\ \A p, q \in DOMAIN sourceBuilderPromises :
       (/\ sourceBuilderPromises[p].databaseName = sourceBuilderPromises[q].databaseName
        /\ sourceBuilderPromises[p].pgClass = sourceBuilderPromises[q].pgClass)
         => p = q
  /\ returned.call = "getSourceBuilder" =>
       /\ returned.result \in DOMAIN sourceBuilderPromises
       /\ returned.result =
            BuilderPromiseOf(sourceBuilderByPgClassByDatabase,
                             returned.databaseName, returned.pgClass)
       /\ sourceBuilderPromises[returned.result].databaseName = returned.databaseName
       /\ sourceBuilderPromises[returned.result].pgClass = returned.pgClass
  /\ \A p \in DOMAIN sourceBuilderPromises :
       (sourceBuilderPromises[p].awaiting = "resolved"
          /\ sourceBuilderPromises[p].value # 0)
         => /\ sourceBuilderPromises[p].value \in DOMAIN detailsBySourceBuilder
            /\ detailsBySourceBuilder[sourceBuilderPromises[p].value]
                 = [databaseName |-> sourceBuilderPromises[p].databaseName,
                    pgClass |-> sourceBuilderPromises[p].pgClass]
  /\ \A q \in DOMAIN sourcePromises : sourcePromises[q].awaiting # "rejected"

\* a call finds the promise of a build that is still pending, while another
\* build has resolved with a source builder
C31_Witness ==
  /\ returned.call = "getSourceBuilder"
  /\ ~returned.fresh
  /\ sourceBuilderPromises[returned.result].awaiting = "getConstraintsForClass"
  /\ \E p \in DOMAIN sourceBuilderPromises :
       sourceBuilderPromises[p].awaiting = "resolved"
         /\ sourceBuilderPromises[p].value # 0

\* how many times info.process has been called with this hook for this builder
HookCount(hook, sourceBuilder) ==
  Cardinality({k \in DOMAIN processed :
                 processed[k] = [hook |-> hook, sourceBuilder |-> sourceBuilder]})

\* C32: for one source builder there is at most one run of getSource's build,
\* each of the two hooks is processed at most once and pgTables:PgSource only
\* after pgTables:PgSourceBuilder:relations, both exactly once when the promise
\* has resolved; every getSource call returns that promise; output.pgSources
\* holds no source twice and only resolved sources, and when main has finished
\* it holds the source of every source builder whose promise was in the map
\* when main started.
C32_OneSourcePerBuilder ==
  /\ \A p, q \in DOMAIN sourcePromises :
       sourcePromises[p].sourceBuilder = sourcePromises[q].sourceBuilder => p = q
  /\ \A k, l \in DOMAIN processed : processed[k] = processed[l] => k = l
  /\ \A l \in DOMAIN processed :
       processed[l].hook = "pgTables:PgSource" =>
         \E k \in 1..(l - 1) :
           processed[k] = [hook |-> "pgTables:PgSourceBuilder:relations",
                           sourceBuilder |-> processed[l].sourceBuilder]
  /\ \A p \in DOMAIN sourcePromises :
       sourcePromises[p].awaiting = "resolved" =>
         /\ HookCount("pgTables:PgSourceBuilder:relations",
                      sourcePromises[p].sourceBuilder) = 1
         /\ HookCount("pgTables:PgSource", sourcePromises[p].sourceBuilder) = 1
  /\ returned.call = "getSource" =>
       returned.result = SourcePromiseOf(returned.sourceBuilder)
  /\ \A k, l \in DOMAIN pgSources : pgSources[k] = pgSources[l] => k = l
  /\ \A k \in DOMAIN pgSources :
       /\ pgSources[k] \in DOMAIN sourcePromises
       /\ sourcePromises[pgSources[k]].awaiting = "resolved"
       /\ sourcePromises[pgSources[k]].sourceBuilder \in SourceBuilders
  /\ mainState.pc = "done" =>
       \A p \in mainState.atStart :
         /\ sourceBuilderPromises[p].awaiting = "resolved"
         /\ sourceBuilderPromises[p].value # 0 =>
              \E k \in DOMAIN pgSources :
                sourcePromises[pgSources[k]].sourceBuilder
                  = sourceBuilderPromises[p].value

\* main has finished over a source builder and a null builder, and a later
\* getSource call finds the promise main used
C32_Witness ==
  /\ mainState.pc = "done"
  /\ Len(pgSources) = 1
  /\ \E p \in mainState.atStart : sourceBuilderPromises[p].value = 0
  /\ returned.call = "getSource"
  /\ ~returned.fresh
  /\ returned.result = pgSources[1]

====
